---- MODULE Spec2Model ----
(***************************************************************************)
(* Model of the cipher_trapdoor_sets library: hash words, the keyed        *)
(* derivation, trapdoors, the two set representations, approximate values  *)
(* and the operations that combine them.                                   *)
(*                                                                         *)
(* The library is a collection of value types and pure operations.  The    *)
(* state of the model is what a client of the library holds: one object of *)
(* each kind (the accumulator the client keeps combining into) and the     *)
(* record of the last library call, with its operands and its outcome.     *)
(* Each family of types has its own specification over these variables.    *)
(***************************************************************************)
EXTENDS Integers, Sequences, FiniteSets, TLC

VARIABLES std_hash, factory, ab, td, sds, bs, cmp, res

vars == <<std_hash, factory, ab, td, sds, bs, cmp, res>>

(***************************************************************************)
(* Bounds of the model.                                                    *)
(***************************************************************************)
\* hash width in bytes (template parameter N of hash_value)
N == 1
\* secret keys are identified by their master_key_hash, 1..MaxKey
MaxKey == 2
\* plaintext values are 1..MaxVal
MaxVal == 2
\* std::hash results range over 0..MaxStdHash
MaxStdHash == 1
\* boolean_set_factory::num_hashes_ ranges over 1..MaxHashes
MaxHashes == 2
\* length of the collections handed to from_unique / from_collection
MaxLen == 2
\* precision (significand bits) of the floating-point format (double: 53)
MantBits == 2
\* the small rates given to constructors lie RateSpan - 1 binades below 1.0
RateSpan == 4
\* number of participants handed to threshold_operation
MaxParticipants == 2
\* the sampled fingerprints are k * 256^i for i in 0..MaxShift
MaxShift == 2
\* number of bytes that follow a serialized object in a buffer
MaxExtra == 1
\* threshold_scheme(k, n) is constructed for k, n in 0..MaxTotal
MaxTotal == 3
\* std::rand() & 0xFF yields the bytes 0..MaxRand
MaxRand == 1
\* number of components added to a compound_trapdoor
MaxComponents == 3
\* the sampled words have DefaultN / 2^i leading bytes set, i in 0..MaxHalvings
MaxHalvings == 2
\* lsh_index is constructed with num_bands in 0..MaxBands
MaxBands == 2
\* lsh_index is constructed with band_size in 0..MaxBandSize
MaxBandSize == 2
\* length of the vectors handed to batch_equals
MaxBatch == 2
\* additive trapdoors are multiplied by the scalars -MaxScalar..MaxScalar
MaxScalar == 2
\* encrypted values stay within -MaxPayload..MaxPayload
MaxPayload == 4
\* a std::size_t is modelled with SizeTBits bits
SizeTBits == 16

Keys == 1..MaxKey
Values == 1..MaxVal
NoObject == [none |-> TRUE]

(***************************************************************************)
(* Bytes and bitwise operations on them.                                   *)
(***************************************************************************)
ByteBits == 8
ByteMod == 2 ^ ByteBits

RECURSIVE BitAnd(_, _, _)
BitAnd(a, b, n) ==
    IF n = 0 THEN 0
    ELSE (IF a % 2 = 1 /\ b % 2 = 1 THEN 1 ELSE 0) + 2 * BitAnd(a \div 2, b \div 2, n - 1)

RECURSIVE BitOr(_, _, _)
BitOr(a, b, n) ==
    IF n = 0 THEN 0
    ELSE (IF a % 2 = 1 \/ b % 2 = 1 THEN 1 ELSE 0) + 2 * BitOr(a \div 2, b \div 2, n - 1)

RECURSIVE BitXor(_, _, _)
BitXor(a, b, n) ==
    IF n = 0 THEN 0
    ELSE (IF a % 2 # b % 2 THEN 1 ELSE 0) + 2 * BitXor(a \div 2, b \div 2, n - 1)

\* the bitwise operations on half bytes, tabulated, and on bytes
Nibbles == 0..15

AndNibble == [a \in Nibbles |-> [b \in Nibbles |-> BitAnd(a, b, 4)]]

OrNibble == [a \in Nibbles |-> [b \in Nibbles |-> BitOr(a, b, 4)]]

XorNibble == [a \in Nibbles |-> [b \in Nibbles |-> BitXor(a, b, 4)]]

ByteAnd(a, b) == 16 * AndNibble[a \div 16][b \div 16] + AndNibble[a % 16][b % 16]

ByteOr(a, b) == 16 * OrNibble[a \div 16][b \div 16] + OrNibble[a % 16][b % 16]

ByteXor(a, b) == 16 * XorNibble[a \div 16][b \div 16] + XorNibble[a % 16][b % 16]

(***************************************************************************)
(* hash_value<N>: a word of N bytes, data[0] first.                        *)
(***************************************************************************)
hash_value_default == [j \in 1..N |-> 0]

hash_xor(x, y) == [j \in DOMAIN x |-> ByteXor(x[j], y[j])]

hash_and(x, y) == [j \in DOMAIN x |-> ByteAnd(x[j], y[j])]

hash_or(x, y) == [j \in DOMAIN x |-> ByteOr(x[j], y[j])]

\* ~data[i] on a uint8_t, truncated back to the byte on assignment
hash_not(x) == [j \in DOMAIN x |-> (ByteMod - 1) - x[j]]

is_zero(x) == \A j \in 1..N : x[j] = 0

is_ones(x) == \A j \in 1..N : x[j] = ByteMod - 1

(***************************************************************************)
(* key_derivation: a key is its master_key_hash.  std::hash is opaque: the *)
(* variable std_hash holds its result for every input the model hashes, a  *)
(* plaintext value <<"T", x>> or the salted string <<"s", i, h>> standing  *)
(* for std::to_string(i) + std::to_string(h).  It never changes.           *)
(***************************************************************************)
\* 0x9e3779b9, of which only the low 24 bits reach the first three bytes
GoldenLow == 3635641

WordMod == 2 ^ (ByteBits * N)

PlainInputs == {<<"T", x>> : x \in Values}

SaltedInputs == {<<"s", i, h>> : i \in 0..(MaxHashes - 1), h \in 0..MaxStdHash}

\* seed ^= hasher(v) + 0x9e3779b9 + (seed << 6) + (seed >> 2), low 8N bits
hash_combine(seed, hv) ==
    BitXor(seed % WordMod,
           (hv + GoldenLow + seed * 64 + seed \div 4) % WordMod,
           ByteBits * N)

\* derive<N>(input) where hv = std::hash(input): byte i is h >> (i * 8)
derive(key, hv) ==
    LET h == hash_combine(key, hv)
    IN  [j \in 1..N |-> (h \div (ByteMod ^ (j - 1))) % ByteMod]

\* derive, tabulated for the keys and the std::hash results of the model
Derived == [key \in Keys |-> [hv \in 0..MaxStdHash |-> derive(key, hv)]]

key_fingerprint(key) == key

(***************************************************************************)
(* trapdoor<T, N>: a hash word and the fingerprint of the key.             *)
(***************************************************************************)
trapdoor(h, kf) == [hash |-> h, kf |-> kf]

\* trapdoor_factory(key).create(input)
create(key, input) == trapdoor(Derived[key][std_hash[input]], key_fingerprint(key))

\* an operation that throws leaves no result but the error
Throw(e) == [err |-> e]

Threw(r) == "err" \in DOMAIN r

(***************************************************************************)
(* double: a binary floating-point number with MantBits significand bits   *)
(* and round-to-nearest-even.  A finite number is <<m, e>>, meaning        *)
(* m * 2^e, with 2^(MantBits-1) <= |m| < 2^MantBits, or FZero.             *)
(***************************************************************************)
FZero == <<0, 0>>
NaN == <<0, 1>>

IsNaN(x) == x = NaN

Abs(n) == IF n < 0 THEN -n ELSE n

RECURSIVE BitLen(_)
BitLen(a) == IF a = 0 THEN 0 ELSE 1 + BitLen(a \div 2)

\* the double nearest to n * 2^e (ties to even)
FNorm(n, e) ==
    LET a == Abs(n)
        sg == IF n < 0 THEN -1 ELSE 1
        len == BitLen(a)
    IN  IF n = 0 THEN FZero
        ELSE IF len <= MantBits
             THEN <<sg * a * 2 ^ (MantBits - len), e - (MantBits - len)>>
             ELSE LET s == len - MantBits
                      q == a \div (2 ^ s)
                      r == a % (2 ^ s)
                      half == 2 ^ (s - 1)
                      up == r > half \/ (r = half /\ q % 2 = 1)
                      q2 == IF up THEN q + 1 ELSE q
                  IN  IF q2 = 2 ^ MantBits
                      THEN <<sg * 2 ^ (MantBits - 1), e + s + 1>>
                      ELSE <<sg * q2, e + s>>

FNeg(x) == IF IsNaN(x) THEN NaN ELSE <<-x[1], x[2]>>

\* x + y; an operand below a quarter ulp of the other leaves it unchanged
FAdd(x, y) ==
    IF IsNaN(x) \/ IsNaN(y) THEN NaN
    ELSE IF x = FZero THEN y
    ELSE IF y = FZero THEN x
    ELSE LET hi == IF x[2] >= y[2] THEN x ELSE y
             lo == IF x[2] >= y[2] THEN y ELSE x
             d == hi[2] - lo[2]
         IN  IF d >= MantBits + 2 THEN hi
             ELSE FNorm(hi[1] * 2 ^ d + lo[1], lo[2])

FSub(x, y) == FAdd(x, FNeg(y))

FMul(x, y) ==
    IF IsNaN(x) \/ IsNaN(y) THEN NaN
    ELSE FNorm(x[1] * y[1], x[2] + y[2])

\* static_cast<double>(g) / p for unsigned g, p; 0.0 / 0 is NaN
FDiv(g, p) ==
    IF p = 0 THEN NaN
    ELSE LET s == MantBits + 1 + BitLen(p)
             q == (g * 2 ^ s) \div p
             sticky == IF (g * 2 ^ s) % p = 0 THEN 0 ELSE 1
         IN  FNorm(2 * q + sticky, -(s + 1))

\* x / y for doubles; 0.0 / 0.0 is NaN, and no caller divides anything else
\* by zero
FQuot(x, y) ==
    IF IsNaN(x) \/ IsNaN(y) \/ y = FZero THEN NaN
    ELSE LET sg == IF (x[1] < 0) = (y[1] < 0) THEN 1 ELSE -1
             s == MantBits + 2
             q == (Abs(x[1]) * 2 ^ s) \div Abs(y[1])
             sticky == IF (Abs(x[1]) * 2 ^ s) % Abs(y[1]) = 0 THEN 0 ELSE 1
         IN  FNorm(sg * (2 * q + sticky), x[2] - y[2] - s - 1)

\* x <= y; every comparison with NaN is false
FLe(x, y) == ~IsNaN(x) /\ ~IsNaN(y) /\ FSub(x, y)[1] <= 0

\* std::max(a, b): (a < b) ? b : a
FMax(a, b) == IF ~IsNaN(a) /\ ~IsNaN(b) /\ FSub(a, b)[1] < 0 THEN b ELSE a

FOne == <<2 ^ (MantBits - 1), -(MantBits - 1)>>

\* static_cast<double>(n) of an unsigned integer
IntToF(n) == FNorm(n, 0)

RECURSIVE ISqrt(_)
ISqrt(n) ==
    IF n < 2 THEN n
    ELSE LET s == 2 * ISqrt(n \div 4)
         IN  IF (s + 1) * (s + 1) <= n THEN s + 1 ELSE s

\* std::sqrt, correctly rounded: the root of the mantissa scaled by an even
\* power of two, with a sticky bit when the root is not exact
FSqrt(x) ==
    IF IsNaN(x) \/ x[1] < 0 THEN NaN
    ELSE IF x = FZero THEN FZero
    ELSE LET odd == x[2] % 2 # 0
             m == (IF odd THEN 2 * x[1] ELSE x[1]) * 4 ^ (MantBits + 1)
             e == (IF odd THEN x[2] - 1 ELSE x[2]) - 2 * (MantBits + 1)
             r == ISqrt(m)
         IN  FNorm(2 * r + (IF r * r = m THEN 0 ELSE 1), (e \div 2) - 1)

FHalf == <<2 ^ (MantBits - 1), -MantBits>>

\* std::pow(2.0, -n)
Pow2Neg(n) == <<2 ^ (MantBits - 1), -n - (MantBits - 1)>>

\* the doubles a caller passes as rates: the smallest and the largest double
\* of the binade of 1.0 and of the binade RateSpan - 1 below it, zero, and a
\* negative number
RateSample ==
    {<<m, e>> : m \in {2 ^ (MantBits - 1), 2 ^ MantBits - 1},
                e \in {-(MantBits - 1) - RateSpan + 1, -(MantBits - 1)}}
    \cup {FZero, FNeg(FOne)}

InUnit(x) == FLe(FZero, x) /\ FLe(x, FOne)

(***************************************************************************)
(* approximate_value<T> and approximate_bool                               *)
(***************************************************************************)
approximate_value(v, fpr, fnr) == [value |-> v, fpr |-> fpr, fnr |-> fnr]

error_rate(a) == FMax(a.fpr, a.fnr)

compose_error_rates(e1, e2) == FSub(FAdd(e1, e2), FMul(e1, e2))

approximate_bool_and(a, b) ==
    approximate_value(a.value /\ b.value,
                      compose_error_rates(a.fpr, b.fpr),
                      compose_error_rates(a.fnr, b.fnr))

\* operator|| composing the false-negative rate from the wrong operand field
approximate_bool_or_crossed(a, b) ==
    approximate_value(a.value \/ b.value,
                      compose_error_rates(a.fpr, b.fpr),
                      compose_error_rates(a.fpr, b.fnr))

approximate_bool_or(a, b) ==
    approximate_value(a.value \/ b.value,
                      compose_error_rates(a.fpr, b.fpr),
                      compose_error_rates(a.fnr, b.fnr))

approximate_bool_not(a) == approximate_value(~a.value, a.fnr, a.fpr)

\* threshold_scheme(k, n)::threshold_operation on p participants of which g agree
threshold_operation(k, p, g) ==
    IF p < k THEN approximate_value(FALSE, FZero, FOne)
    ELSE approximate_value(g >= k, FSub(FOne, FDiv(g, p)), FZero)

compatible_with(a, b) == a.kf = b.kf

\* trapdoor::equals reporting the collision rate as the false-negative rate
trapdoor_equals_swapped(a, b) ==
    IF ~compatible_with(a, b) THEN Throw("IncompatibleKey")
    ELSE approximate_value(a.hash = b.hash, FZero, Pow2Neg(ByteBits * N))

\* trapdoor::equals
trapdoor_equals(a, b) ==
    IF ~compatible_with(a, b) THEN Throw("IncompatibleKey")
    ELSE approximate_value(a.hash = b.hash, Pow2Neg(ByteBits * N), FZero)

\* operator==(trapdoor, trapdoor)
trapdoor_eq(a, b) == trapdoor_equals(a, b)

\* operator!=(trapdoor, trapdoor)
trapdoor_ne(a, b) ==
    LET r == trapdoor_equals(a, b)
    IN  IF Threw(r) THEN r ELSE approximate_bool_not(r)

(***************************************************************************)
(* symmetric_difference_set<T, N> and its factory                          *)
(***************************************************************************)
symmetric_difference_set(h, kf) == [hash |-> h, kf |-> kf]

\* the default constructor: zero hash, fingerprint 0
sds_default == symmetric_difference_set(hash_value_default, 0)

sds_verify_compatible(a, b) == ~(a.kf # 0 /\ b.kf # 0 /\ a.kf # b.kf)

\* operator^ combining the hashes with | instead of ^
sds_xor_as_union(a, b) ==
    IF ~sds_verify_compatible(a, b) THEN Throw("IncompatibleKey")
    ELSE symmetric_difference_set(hash_or(a.hash, b.hash), a.kf)

\* operator^(symmetric_difference_set)
sds_xor(a, b) ==
    IF ~sds_verify_compatible(a, b) THEN Throw("IncompatibleKey")
    ELSE symmetric_difference_set(hash_xor(a.hash, b.hash), a.kf)

\* operator^= that never takes over the element's fingerprint
sds_xor_assign_keeps_kf(s, elem) ==
    IF elem.kf # s.kf /\ s.kf # 0 THEN Throw("IncompatibleKey")
    ELSE symmetric_difference_set(hash_xor(s.hash, elem.hash), s.kf)

\* operator^=(trapdoor): the new value of *this, or the exception
sds_xor_assign(s, elem) ==
    IF elem.kf # s.kf /\ s.kf # 0 THEN Throw("IncompatibleKey")
    ELSE symmetric_difference_set(hash_xor(s.hash, elem.hash),
                                  IF s.kf = 0 THEN elem.kf ELSE s.kf)

sds_is_empty(a) == approximate_value(is_zero(a.hash), Pow2Neg(N * 8), FZero)

sds_equals(a, b) ==
    IF ~sds_verify_compatible(a, b) THEN Throw("IncompatibleKey")
    ELSE approximate_value(a.hash = b.hash, Pow2Neg(N * 8), FZero)

\* symmetric_difference_set_factory(key).empty()
sds_factory_empty(key) == sds_default

\* symmetric_difference_set_factory(key).singleton(x)
sds_factory_singleton(key, x) ==
    LET t == create(key, <<"T", x>>)
    IN  symmetric_difference_set(t.hash, t.kf)

\* symmetric_difference_set_factory(key).from_unique(values): the loop, from
\* the accumulated result
RECURSIVE from_unique_loop(_, _, _)
from_unique_loop(key, values, result) ==
    IF values = <<>> THEN result
    ELSE LET r == sds_xor_assign(result, create(key, <<"T", Head(values)>>))
         IN  IF Threw(r) THEN r ELSE from_unique_loop(key, Tail(values), r)

from_unique(key, values) == from_unique_loop(key, values, sds_default)

(***************************************************************************)
(* boolean_set<T, N> and its factory                                       *)
(***************************************************************************)
boolean_set(h, kf) == [hash |-> h, kf |-> kf]

\* boolean_set's default constructor; key_fingerprint_{0}
bs_default == boolean_set(hash_value_default, 0)

\* verify_compatible letting a zero fingerprint pass, as symmetric_difference_set does
bs_verify_compatible_zero_exempt(a, b) == a.kf = 0 \/ b.kf = 0 \/ a.kf = b.kf

\* verify_compatible: throws unless the fingerprints are equal
bs_verify_compatible(a, b) == a.kf = b.kf

\* operator|
bs_or(a, b) ==
    IF ~bs_verify_compatible(a, b) THEN Throw("IncompatibleKey")
    ELSE boolean_set(hash_or(a.hash, b.hash), a.kf)

\* operator&
bs_and(a, b) ==
    IF ~bs_verify_compatible(a, b) THEN Throw("IncompatibleKey")
    ELSE boolean_set(hash_and(a.hash, b.hash), a.kf)

\* operator^
bs_xor(a, b) ==
    IF ~bs_verify_compatible(a, b) THEN Throw("IncompatibleKey")
    ELSE boolean_set(hash_xor(a.hash, b.hash), a.kf)

\* operator~
bs_not(a) == boolean_set(hash_not(a.hash), a.kf)

\* operator- written as *this ^ other
bs_minus_as_xor(a, b) == bs_xor(a, b)

\* operator-: *this & ~other
bs_minus(a, b) == bs_and(a, bs_not(b))

\* contains(trapdoor)
bs_contains(s, elem) ==
    IF elem.kf # s.kf THEN Throw("IncompatibleKey")
    ELSE approximate_value(hash_and(s.hash, elem.hash) = elem.hash, FHalf, FZero)

bs_subset_of(a, b) ==
    IF ~bs_verify_compatible(a, b) THEN Throw("IncompatibleKey")
    ELSE approximate_value(hash_and(a.hash, b.hash) = a.hash, FHalf, FZero)

bs_is_empty(a) == approximate_value(is_zero(a.hash), Pow2Neg(N * ByteBits), FZero)

bs_is_universal(a) == approximate_value(is_ones(a.hash), Pow2Neg(N * ByteBits), FZero)

bs_equals(a, b) ==
    IF ~bs_verify_compatible(a, b) THEN Throw("IncompatibleKey")
    ELSE approximate_value(a.hash = b.hash, Pow2Neg(N * ByteBits), FZero)

\* boolean_set_factory(key, m).empty()
bs_factory_empty(key) == boolean_set(hash_value_default, key_fingerprint(key))

\* boolean_set_factory(key, m).universal()
bs_factory_universal(key) ==
    boolean_set([j \in 1..N |-> ByteMod - 1], key_fingerprint(key))

\* result.data[j] |= (1 << (i % 8)) for every j where td.hash().data[j] & 0x01
set_bits(result, t, i) ==
    [j \in 1..N |-> IF t.hash[j] % 2 = 1
                    THEN ByteOr(result[j], 2 ^ (i % ByteBits))
                    ELSE result[j]]

\* boolean_set_factory(key, m).singleton(x): the loop over i, from result
RECURSIVE singleton_loop(_, _, _, _, _)
singleton_loop(key, m, x, i, result) ==
    IF i >= m THEN result
    ELSE LET modified_value == <<"s", i, std_hash[<<"T", x>>]>>
             t == create(key, modified_value)
         IN  singleton_loop(key, m, x, i + 1, set_bits(result, t, i))

singleton(key, m, x) ==
    boolean_set(singleton_loop(key, m, x, 0, hash_value_default), key_fingerprint(key))

\* boolean_set_factory(key, m).from_collection(values): the loop, from result
RECURSIVE from_collection_loop(_, _, _, _)
from_collection_loop(key, m, values, result) ==
    IF values = <<>> THEN result
    ELSE LET r == bs_or(result, singleton(key, m, Head(values)))
         IN  IF Threw(r) THEN r ELSE from_collection_loop(key, m, Tail(values), r)

from_collection(key, m, values) ==
    from_collection_loop(key, m, values, bs_factory_empty(key))

(***************************************************************************)
(* additive_trapdoor<T, N> and compound_trapdoor<T, N>                     *)
(***************************************************************************)
additive_trapdoor(t, value) == [hash |-> t.hash, kf |-> t.kf, value |-> value]

\* additive_trapdoor::operator+
additive_plus(a, b) ==
    IF a.kf # b.kf THEN Throw("IncompatibleKey")
    ELSE additive_trapdoor(trapdoor(hash_xor(a.hash, b.hash), a.kf), a.value + b.value)

compound_trapdoor(kf) == [components |-> <<>>, kf |-> kf]

\* compound_trapdoor::add_component: the compound after the call, or the throw
add_component(c, t) ==
    IF t.kf # c.kf THEN Throw("IncompatibleKey")
    ELSE [components |-> Append(c.components, t), kf |-> c.kf]

(***************************************************************************)
(* minhash<T, N, K> and cosine_similarity<N>.  A std::uint32_t is its four *)
(* bytes, most significant first.                                          *)
(***************************************************************************)
UInt32Bytes == 4

RECURSIVE U32Less(_, _)
U32Less(a, b) ==
    IF a = <<>> THEN FALSE
    ELSE IF Head(a) # Head(b) THEN Head(a) < Head(b)
    ELSE U32Less(Tail(a), Tail(b))

\* std::min replaced by its second argument
U32Min_keeps_new(a, b) == b

U32Min(a, b) == IF U32Less(b, a) THEN b ELSE a

\* signature(k, kf): k values of std::numeric_limits<std::uint32_t>::max()
signature(k, kf) ==
    [values |-> [i \in 1..k |-> [j \in 1..UInt32Bytes |-> ByteMod - 1]], kf |-> kf]

\* hash_val = (hash_val << 8) | td.hash().data[j], for j < 4 && j < N
RECURSIVE hash_val_loop(_, _, _)
hash_val_loop(t, j, hash_val) ==
    IF j >= UInt32Bytes \/ j >= N THEN hash_val
    ELSE hash_val_loop(t, j + 1, Tail(hash_val) \o <<t.hash[j + 1]>>)

\* the inner loop of generate_signature over i, for one val
RECURSIVE signature_hashes(_, _, _, _, _)
signature_hashes(key, m, val, i, sig) ==
    IF i >= m THEN sig
    ELSE LET salted_val == <<"s", i, std_hash[<<"T", val>>]>>
             t == create(key, salted_val)
             hv == hash_val_loop(t, 0, [j \in 1..UInt32Bytes |-> 0])
             next == [values |-> [sig.values EXCEPT ![i + 1] = U32Min(@, hv)],
                      kf |-> sig.kf]
         IN  signature_hashes(key, m, val, i + 1, next)

RECURSIVE signature_loop(_, _, _, _)
signature_loop(key, m, values, sig) ==
    IF values = <<>> THEN sig
    ELSE signature_loop(key, m, Tail(values),
                        signature_hashes(key, m, Head(values), 0, sig))

\* minhash(key, m).generate_signature(values)
generate_signature(key, m, values) ==
    signature_loop(key, m, values, signature(m, key_fingerprint(key)))

\* minhash(_, m).estimate_similarity(sig_a, sig_b)
estimate_similarity(m, sig_a, sig_b) ==
    IF sig_a.kf # sig_b.kf THEN Throw("IncompatibleKey")
    ELSE IF Len(sig_a.values) # Len(sig_b.values) THEN Throw("SizeMismatch")
    ELSE LET matches == Cardinality({i \in 1..Len(sig_a.values) :
                                        sig_a.values[i] = sig_b.values[i]})
             similarity == FDiv(matches, Len(sig_a.values))
             error == FSqrt(FQuot(FMul(similarity, FSub(FOne, similarity)), IntToF(m)))
         IN  approximate_value(similarity, error, FZero)

\* the sums of cosine_similarity::compute: <<dot_product, norm_a, norm_b>>
RECURSIVE cosine_sums(_, _, _, _)
cosine_sums(a, b, i, acc) ==
    IF i >= N THEN acc
    ELSE LET val_a == IntToF(a[i + 1])
             val_b == IntToF(b[i + 1])
         IN  cosine_sums(a, b, i + 1,
                         <<FAdd(acc[1], FMul(val_a, val_b)),
                           FAdd(acc[2], FMul(val_a, val_a)),
                           FAdd(acc[3], FMul(val_b, val_b))>>)

\* cosine_similarity::compute(hash_value, hash_value)
cosine_compute_hash(a, b) ==
    LET sums == cosine_sums(a, b, 0, <<FZero, FZero, FZero>>)
    IN  IF sums[2] = FZero \/ sums[3] = FZero
        THEN approximate_value(FZero, FZero, FZero)
        ELSE approximate_value(FQuot(sums[1], FMul(FSqrt(sums[2]), FSqrt(sums[3]))),
                               FQuot(FOne, IntToF(N * ByteBits)), FZero)

\* cosine_similarity::compute(trapdoor, trapdoor)
cosine_compute(a, b) ==
    IF a.kf # b.kf THEN Throw("IncompatibleKey")
    ELSE cosine_compute_hash(a.hash, b.hash)

ApproxBools == {approximate_value(v, p, n) : v \in BOOLEAN, p \in RateSample, n \in RateSample}

(***************************************************************************)
(* Specification of the approximate-value calculus: the client holds one   *)
(* approximate_bool ab, built by the constructor or by a library call,     *)
(* negates it in place and combines it with fresh operands; res is the     *)
(* last call with its operands and its result.                             *)
(***************************************************************************)
InitApprox ==
    /\ std_hash = <<>>
    /\ factory = NoObject
    /\ td = NoObject
    /\ sds = NoObject
    /\ bs = NoObject
    /\ cmp = NoObject
    /\ ab = approximate_value(TRUE, FZero, FZero)
    /\ res = [op |-> "init"]

\* approximate_bool(v, p, n)
ApproxConstruct(v, p, n) ==
    /\ ab' = approximate_value(v, p, n)
    /\ res' = [op |-> "approximate_bool", out |-> ab']
    /\ UNCHANGED <<std_hash, factory, td, sds, bs, cmp>>

\* r = ab && b
ApproxAnd(b) ==
    /\ res' = [op |-> "and", lhs |-> ab, rhs |-> b, out |-> approximate_bool_and(ab, b)]
    /\ UNCHANGED <<std_hash, factory, ab, td, sds, bs, cmp>>

\* r = ab || b
ApproxOr(b) ==
    /\ res' = [op |-> "or", lhs |-> ab, rhs |-> b, out |-> approximate_bool_or(ab, b)]
    /\ UNCHANGED <<std_hash, factory, ab, td, sds, bs, cmp>>

\* ab = !ab
ApproxNot ==
    /\ ab' = approximate_bool_not(ab)
    /\ res' = [op |-> "not", lhs |-> ab, out |-> ab']
    /\ UNCHANGED <<std_hash, factory, td, sds, bs, cmp>>

\* ab = threshold_scheme(k, n).threshold_operation(participants, operation)
\* with p participants of which g satisfy the operation
ApproxThresholdOperation(k, n, p, g) ==
    /\ k <= n
    /\ g <= p
    /\ ab' = threshold_operation(k, p, g)
    /\ res' = [op |-> "threshold_operation", k |-> k, p |-> p, g |-> g, out |-> ab']
    /\ UNCHANGED <<std_hash, factory, td, sds, bs, cmp>>

NextApprox ==
    \/ \E v \in BOOLEAN, p \in RateSample, n \in RateSample : ApproxConstruct(v, p, n)
    \/ \E b \in ApproxBools : ApproxAnd(b)
    \/ \E b \in ApproxBools : ApproxOr(b)
    \/ ApproxNot
    \/ \E k \in 0..MaxParticipants, n \in 0..MaxParticipants,
          p \in 0..MaxParticipants, g \in 0..MaxParticipants :
            ApproxThresholdOperation(k, n, p, g)

SpecApprox == InitApprox /\ [][NextApprox]_vars

(***************************************************************************)
(* Specification of trapdoors: the client holds a trapdoor td made by a    *)
(* factory and compares it with trapdoors made by any factory.  td.src is  *)
(* history: the key and the value td was created from.                     *)
(***************************************************************************)
\* the specifications that hash plaintext values only
InitPlainOracle ==
    /\ std_hash \in [PlainInputs \cup SaltedInputs -> 0..MaxStdHash]
    /\ \A s \in SaltedInputs : std_hash[s] = 0

InitTd ==
    /\ InitPlainOracle
    /\ factory = NoObject
    /\ ab = NoObject
    /\ td = NoObject
    /\ sds = NoObject
    /\ bs = NoObject
    /\ cmp = NoObject
    /\ res = [op |-> "init"]

\* an object together with the key and the plaintext it was made from
From(obj, src) == [hash |-> obj.hash, kf |-> obj.kf, src |-> src]

\* td = trapdoor_factory(k).create(x)
TdCreate(k, x) ==
    /\ td' = From(create(k, <<"T", x>>), <<k, x>>)
    /\ res' = [op |-> "create", out |-> td']
    /\ UNCHANGED <<std_hash, factory, ab, sds, bs, cmp>>

Call2(name, lhs, rhs, r) ==
    IF Threw(r) THEN [op |-> name, lhs |-> lhs, rhs |-> rhs, err |-> r.err]
    ELSE [op |-> name, lhs |-> lhs, rhs |-> rhs, out |-> r]

\* td.equals(trapdoor_factory(k).create(y))
TdEquals(k, y) ==
    /\ td # NoObject
    /\ LET other == From(create(k, <<"T", y>>), <<k, y>>)
       IN  res' = Call2("equals", td, other, trapdoor_equals(td, other))
    /\ UNCHANGED <<std_hash, factory, ab, td, sds, bs, cmp>>

\* td == trapdoor_factory(k).create(y)
TdEq(k, y) ==
    /\ td # NoObject
    /\ LET other == From(create(k, <<"T", y>>), <<k, y>>)
       IN  res' = Call2("==", td, other, trapdoor_eq(td, other))
    /\ UNCHANGED <<std_hash, factory, ab, td, sds, bs, cmp>>

\* td != trapdoor_factory(k).create(y)
TdNe(k, y) ==
    /\ td # NoObject
    /\ LET other == From(create(k, <<"T", y>>), <<k, y>>)
       IN  res' = Call2("!=", td, other, trapdoor_ne(td, other))
    /\ UNCHANGED <<std_hash, factory, ab, td, sds, bs, cmp>>

NextTd ==
    \/ \E k \in Keys, x \in Values : TdCreate(k, x)
    \/ \E k \in Keys, y \in Values : TdEquals(k, y)
    \/ \E k \in Keys, y \in Values : TdEq(k, y)
    \/ \E k \in Keys, y \in Values : TdNe(k, y)

SpecTd == InitTd /\ [][NextTd]_vars

(***************************************************************************)
(* Specification of symmetric-difference sets: the client has one          *)
(* symmetric_difference_set_factory and a trapdoor_factory of the same     *)
(* key, holds one set sds and keeps combining it with sets and trapdoors   *)
(* of those factories.                                                     *)
(***************************************************************************)
Collections == UNION {[1..n -> Values] : n \in 0..MaxLen}

\* the sets the factory hands out
SdsMade ==
    {sds_factory_empty(factory.key)}
    \cup {sds_factory_singleton(factory.key, x) : x \in Values}

Bare(obj) == [hash |-> obj.hash, kf |-> obj.kf]

InitSDS ==
    /\ InitPlainOracle
    /\ factory \in [key : Keys]
    /\ ab = NoObject
    /\ td = NoObject
    /\ sds = sds_default
    /\ bs = NoObject
    /\ cmp = NoObject
    /\ res = [op |-> "init"]

\* sds = factory.empty()
SdsEmpty ==
    /\ sds' = sds_factory_empty(factory.key)
    /\ res' = [op |-> "empty", out |-> sds']
    /\ UNCHANGED <<std_hash, factory, ab, td, bs, cmp>>

\* sds = factory.singleton(x)
SdsSingleton(x) ==
    /\ sds' = sds_factory_singleton(factory.key, x)
    /\ res' = [op |-> "singleton", out |-> sds']
    /\ UNCHANGED <<std_hash, factory, ab, td, bs, cmp>>

\* sds = factory.from_unique(vs)
SdsFromUnique(vs) ==
    /\ LET r == from_unique(factory.key, vs)
       IN  /\ res' = IF Threw(r) THEN [op |-> "from_unique", values |-> vs, err |-> r.err]
                     ELSE [op |-> "from_unique", values |-> vs, out |-> r]
           /\ sds' = IF Threw(r) THEN sds ELSE r
    /\ UNCHANGED <<std_hash, factory, ab, td, bs, cmp>>

\* sds = sds ^ b
SdsXor(b) ==
    /\ LET r == sds_xor(sds, b)
       IN  /\ res' = Call2("^", sds, b, r)
           /\ sds' = IF Threw(r) THEN sds ELSE r
    /\ UNCHANGED <<std_hash, factory, ab, td, bs, cmp>>

\* sds = b ^ sds
SdsXorLeft(b) ==
    /\ LET r == sds_xor(b, sds)
       IN  /\ res' = Call2("^", b, sds, r)
           /\ sds' = IF Threw(r) THEN sds ELSE r
    /\ UNCHANGED <<std_hash, factory, ab, td, bs, cmp>>

\* sds ^= trapdoor_factory(key).create(x)
SdsXorAssign(x) ==
    /\ LET elem == create(factory.key, <<"T", x>>)
           r == sds_xor_assign(sds, elem)
       IN  /\ res' = Call2("^=", sds, elem, r)
           /\ sds' = IF Threw(r) THEN sds ELSE r
    /\ UNCHANGED <<std_hash, factory, ab, td, bs, cmp>>

\* sds.equals(b)
SdsEquals(b) ==
    /\ res' = Call2("equals", sds, b, sds_equals(sds, b))
    /\ UNCHANGED <<std_hash, factory, ab, td, sds, bs, cmp>>

\* sds.empty()
SdsIsEmpty ==
    /\ res' = [op |-> "empty?", lhs |-> sds, out |-> sds_is_empty(sds)]
    /\ UNCHANGED <<std_hash, factory, ab, td, sds, bs, cmp>>

NextSDS ==
    \/ SdsEmpty
    \/ \E x \in Values : SdsSingleton(x)
    \/ \E vs \in Collections : SdsFromUnique(vs)
    \/ \E b \in SdsMade : SdsXor(b)
    \/ \E b \in SdsMade : SdsXorLeft(b)
    \/ \E x \in Values : SdsXorAssign(x)
    \/ \E b \in SdsMade : SdsEquals(b)
    \/ SdsIsEmpty

SpecSDS == InitSDS /\ [][NextSDS]_vars

(***************************************************************************)
(* Specification of boolean sets: the client has one factory               *)
(* boolean_set_factory(key, num_hashes) and a trapdoor_factory of the same *)
(* key, holds one set bs and keeps combining it with sets of the factory.  *)
(* bs.items is history: the values of the collection bs was built from by  *)
(* from_collection, empty once bs is anything else.                        *)
(***************************************************************************)
\* the sets the factory hands out
BsMade ==
    {bs_factory_empty(factory.key), bs_factory_universal(factory.key)}
    \cup {singleton(factory.key, factory.num_hashes, x) : x \in Values}

Holding(obj, items) == [hash |-> obj.hash, kf |-> obj.kf, items |-> items]

InitBS ==
    /\ factory \in [key : Keys, num_hashes : 1..MaxHashes]
    /\ std_hash \in [PlainInputs \cup SaltedInputs -> 0..MaxStdHash]
    \* the strings the factory never salts hash to 0
    /\ \A s \in SaltedInputs :
           (\A p \in PlainInputs : s[3] # std_hash[p]) \/ s[2] >= factory.num_hashes
           => std_hash[s] = 0
    /\ ab = NoObject
    /\ td = NoObject
    /\ sds = NoObject
    /\ bs = Holding(bs_default, {})
    /\ cmp = NoObject
    /\ res = [op |-> "init"]

\* bs = factory.empty()
BsEmpty ==
    /\ bs' = Holding(bs_factory_empty(factory.key), {})
    /\ res' = [op |-> "empty", out |-> Bare(bs')]
    /\ UNCHANGED <<std_hash, factory, ab, td, sds, cmp>>

\* bs = factory.universal()
BsUniversal ==
    /\ bs' = Holding(bs_factory_universal(factory.key), {})
    /\ res' = [op |-> "universal", out |-> Bare(bs')]
    /\ UNCHANGED <<std_hash, factory, ab, td, sds, cmp>>

\* bs = factory.singleton(x)
BsSingleton(x) ==
    /\ bs' = Holding(singleton(factory.key, factory.num_hashes, x), {})
    /\ res' = [op |-> "singleton", value |-> x, out |-> Bare(bs')]
    /\ UNCHANGED <<std_hash, factory, ab, td, sds, cmp>>

\* bs = factory.from_collection(vs)
BsFromCollection(vs) ==
    /\ LET r == from_collection(factory.key, factory.num_hashes, vs)
       IN  /\ res' = IF Threw(r) THEN [op |-> "from_collection", values |-> vs, err |-> r.err]
                     ELSE [op |-> "from_collection", values |-> vs, out |-> r]
           /\ bs' = IF Threw(r) THEN bs ELSE Holding(r, {vs[i] : i \in DOMAIN vs})
    /\ UNCHANGED <<std_hash, factory, ab, td, sds, cmp>>

\* bs = bs | b
BsOr(b) ==
    /\ LET r == bs_or(Bare(bs), b)
       IN  /\ res' = Call2("|", Bare(bs), b, r)
           /\ bs' = IF Threw(r) THEN bs ELSE Holding(r, {})
    /\ UNCHANGED <<std_hash, factory, ab, td, sds, cmp>>

\* bs = bs & b
BsAnd(b) ==
    /\ LET r == bs_and(Bare(bs), b)
       IN  /\ res' = Call2("&", Bare(bs), b, r)
           /\ bs' = IF Threw(r) THEN bs ELSE Holding(r, {})
    /\ UNCHANGED <<std_hash, factory, ab, td, sds, cmp>>

\* bs = bs ^ b
BsXor(b) ==
    /\ LET r == bs_xor(Bare(bs), b)
       IN  /\ res' = Call2("^", Bare(bs), b, r)
           /\ bs' = IF Threw(r) THEN bs ELSE Holding(r, {})
    /\ UNCHANGED <<std_hash, factory, ab, td, sds, cmp>>

\* bs = bs - b
BsMinus(b) ==
    /\ LET r == bs_minus(Bare(bs), b)
       IN  /\ res' = Call2("-", Bare(bs), b, r)
           /\ bs' = IF Threw(r) THEN bs ELSE Holding(r, {})
    /\ UNCHANGED <<std_hash, factory, ab, td, sds, cmp>>

\* bs = ~bs
BsNot ==
    /\ bs' = Holding(bs_not(Bare(bs)), {})
    /\ res' = [op |-> "~", lhs |-> Bare(bs), out |-> Bare(bs')]
    /\ UNCHANGED <<std_hash, factory, ab, td, sds, cmp>>

\* bs.contains(trapdoor_factory(key).create(x))
BsContains(x) ==
    /\ LET elem == create(factory.key, <<"T", x>>)
           r == bs_contains(Bare(bs), elem)
       IN  res' = IF Threw(r)
                  THEN [op |-> "contains", lhs |-> bs, value |-> x, rhs |-> elem, err |-> r.err]
                  ELSE [op |-> "contains", lhs |-> bs, value |-> x, rhs |-> elem, out |-> r]
    /\ UNCHANGED <<std_hash, factory, ab, td, sds, bs, cmp>>

\* bs.subset_of(b)
BsSubsetOf(b) ==
    /\ res' = Call2("subset_of", Bare(bs), b, bs_subset_of(Bare(bs), b))
    /\ UNCHANGED <<std_hash, factory, ab, td, sds, bs, cmp>>

\* bs.equals(b)
BsEquals(b) ==
    /\ res' = Call2("equals", Bare(bs), b, bs_equals(Bare(bs), b))
    /\ UNCHANGED <<std_hash, factory, ab, td, sds, bs, cmp>>

\* bs.empty()
BsIsEmpty ==
    /\ res' = [op |-> "empty?", lhs |-> Bare(bs), out |-> bs_is_empty(Bare(bs))]
    /\ UNCHANGED <<std_hash, factory, ab, td, sds, bs, cmp>>

\* bs.universal()
BsIsUniversal ==
    /\ res' = [op |-> "universal?", lhs |-> Bare(bs), out |-> bs_is_universal(Bare(bs))]
    /\ UNCHANGED <<std_hash, factory, ab, td, sds, bs, cmp>>

NextBS ==
    \/ BsEmpty
    \/ BsUniversal
    \/ \E x \in Values : BsSingleton(x)
    \/ \E vs \in Collections : BsFromCollection(vs)
    \/ \E b \in BsMade : BsOr(b)
    \/ \E b \in BsMade : BsAnd(b)
    \/ \E b \in BsMade : BsXor(b)
    \/ \E b \in BsMade : BsMinus(b)
    \/ BsNot
    \/ \E x \in Values : BsContains(x)
    \/ \E b \in BsMade : BsSubsetOf(b)
    \/ \E b \in BsMade : BsEquals(b)
    \/ BsIsEmpty
    \/ BsIsUniversal

SpecBS == InitBS /\ [][NextBS]_vars

(***************************************************************************)
(* Specification of the combining operations: the client builds objects    *)
(* under every key and applies each two-operand operation to every pair.   *)
(***************************************************************************)
TdPool == {create(k, <<"T", x>>) : k \in Keys, x \in Values}

BsPool ==
    {bs_default} \cup {singleton(k, MaxHashes, x) : k \in Keys, x \in Values}

AdditivePool == {additive_trapdoor(create(k, <<"T", x>>), x) : k \in Keys, x \in Values}

\* compounds with room for one more component
CompoundPool ==
    {compound_trapdoor(kf) : kf \in 0..MaxKey}
    \cup {add_component(compound_trapdoor(t.kf), t) : t \in TdPool}

SignaturePool ==
    {signature(0, 0)}
    \cup {generate_signature(k, m, <<x>>) : k \in Keys, m \in 1..MaxHashes, x \in Values}

InitCompat ==
    /\ InitPlainOracle
    /\ factory = NoObject
    /\ ab = NoObject
    /\ td = NoObject
    /\ sds = NoObject
    /\ bs = NoObject
    /\ cmp = NoObject
    /\ res = [op |-> "init"]

NothingElse == UNCHANGED <<std_hash, factory, ab, td, sds, bs, cmp>>

TryTdEquals(a, b) ==
    /\ res' = Call2("td.equals", a, b, trapdoor_equals(a, b))
    /\ NothingElse

TryTdEq(a, b) ==
    /\ res' = Call2("td==", a, b, trapdoor_eq(a, b))
    /\ NothingElse

TryTdNe(a, b) ==
    /\ res' = Call2("td!=", a, b, trapdoor_ne(a, b))
    /\ NothingElse

TryBsOr(a, b) ==
    /\ res' = Call2("bs|", a, b, bs_or(a, b))
    /\ NothingElse

TryBsAnd(a, b) ==
    /\ res' = Call2("bs&", a, b, bs_and(a, b))
    /\ NothingElse

TryBsXor(a, b) ==
    /\ res' = Call2("bs^", a, b, bs_xor(a, b))
    /\ NothingElse

TryBsMinus(a, b) ==
    /\ res' = Call2("bs-", a, b, bs_minus(a, b))
    /\ NothingElse

TryBsSubsetOf(a, b) ==
    /\ res' = Call2("bs.subset_of", a, b, bs_subset_of(a, b))
    /\ NothingElse

TryBsEquals(a, b) ==
    /\ res' = Call2("bs.equals", a, b, bs_equals(a, b))
    /\ NothingElse

TryBsContains(a, t) ==
    /\ res' = Call2("bs.contains", a, t, bs_contains(a, t))
    /\ NothingElse

TryAdditivePlus(a, b) ==
    /\ res' = Call2("additive+", a, b, additive_plus(a, b))
    /\ NothingElse

TryAddComponent(c, t) ==
    /\ res' = Call2("add_component", c, t, add_component(c, t))
    /\ NothingElse

TryEstimateSimilarity(m, a, b) ==
    /\ res' = Call2("estimate_similarity", a, b, estimate_similarity(m, a, b))
    /\ NothingElse

TryCosineCompute(a, b) ==
    /\ res' = Call2("cosine", a, b, cosine_compute(a, b))
    /\ NothingElse

NextCompat ==
    \/ \E a, b \in TdPool : TryTdEquals(a, b)
    \/ \E a, b \in TdPool : TryTdEq(a, b)
    \/ \E a, b \in TdPool : TryTdNe(a, b)
    \/ \E a, b \in BsPool : TryBsOr(a, b)
    \/ \E a, b \in BsPool : TryBsAnd(a, b)
    \/ \E a, b \in BsPool : TryBsXor(a, b)
    \/ \E a, b \in BsPool : TryBsMinus(a, b)
    \/ \E a, b \in BsPool : TryBsSubsetOf(a, b)
    \/ \E a, b \in BsPool : TryBsEquals(a, b)
    \/ \E a \in BsPool, t \in TdPool : TryBsContains(a, t)
    \/ \E a, b \in AdditivePool : TryAdditivePlus(a, b)
    \/ \E c \in CompoundPool, t \in TdPool : TryAddComponent(c, t)
    \/ \E m \in 1..MaxHashes, a, b \in SignaturePool : TryEstimateSimilarity(m, a, b)
    \/ \E a, b \in TdPool : TryCosineCompute(a, b)

SpecCompat == InitCompat /\ [][NextCompat]_vars

(***************************************************************************)
(* Claims about the approximate-value calculus (SpecApprox).               *)
(***************************************************************************)
ValidRates(a) == InUnit(a.fpr) /\ InUnit(a.fnr)

\* C7: approximate_bool follows the composition table: && and || give the
\* conjunction / disjunction of the values with each rate composed as
\* e1 + e2 - e1 * e2 from the same rate of the two operands; ! negates the
\* value and swaps the rates, so !!a is a; De Morgan's laws hold in value.
C7_CompositionTable ==
    /\ res.op \in {"and", "or"} =>
         /\ res.out.value = (IF res.op = "and" THEN res.lhs.value /\ res.rhs.value
                                               ELSE res.lhs.value \/ res.rhs.value)
         /\ res.out.fpr = FSub(FAdd(res.lhs.fpr, res.rhs.fpr), FMul(res.lhs.fpr, res.rhs.fpr))
         /\ res.out.fnr = FSub(FAdd(res.lhs.fnr, res.rhs.fnr), FMul(res.lhs.fnr, res.rhs.fnr))
    /\ res.op = "and" =>
         approximate_bool_not(res.out).value =
           approximate_bool_or(approximate_bool_not(res.lhs), approximate_bool_not(res.rhs)).value
    /\ res.op = "or" =>
         approximate_bool_not(res.out).value =
           approximate_bool_and(approximate_bool_not(res.lhs), approximate_bool_not(res.rhs)).value
    /\ res.op = "not" =>
         /\ res.out.value = ~res.lhs.value
         /\ res.out.fpr = res.lhs.fnr
         /\ res.out.fnr = res.lhs.fpr
         /\ approximate_bool_not(res.out) = res.lhs

\* a disjunction of two operands that each have two different non-zero rates
C7_Witness ==
    /\ res.op = "or"
    /\ ValidRates(res.lhs) /\ ValidRates(res.rhs)
    /\ res.lhs.fpr # res.lhs.fnr /\ res.rhs.fpr # res.rhs.fnr
    /\ FZero \notin {res.lhs.fpr, res.lhs.fnr, res.rhs.fpr, res.rhs.fnr}
    /\ res.lhs.value # res.rhs.value
    /\ res.out.fpr # res.out.fnr

\* C8: error never decreases across composition: for operands with rates in
\* [0,1] the fpr of a && b and of a || b is >= max(a.fpr, b.fpr) and <= 1,
\* the same for fnr, and error_rate(!a) = error_rate(a).
C8_ErrorNeverDecreases ==
    /\ (res.op \in {"and", "or"} /\ ValidRates(res.lhs) /\ ValidRates(res.rhs)) =>
         /\ FLe(FMax(res.lhs.fpr, res.rhs.fpr), res.out.fpr)
         /\ FLe(res.out.fpr, FOne)
         /\ FLe(FMax(res.lhs.fnr, res.rhs.fnr), res.out.fnr)
         /\ FLe(res.out.fnr, FOne)
    /\ (res.op = "not" /\ ValidRates(res.lhs)) =>
         error_rate(res.out) = error_rate(res.lhs)

\* C9: every approximate_bool, built by the constructor or returned by a
\* library operation, has 0 <= fpr <= 1 and 0 <= fnr <= 1.
C9_RatesInUnit ==
    /\ ValidRates(ab)
    /\ res.op # "init" => ValidRates(res.out)

(***************************************************************************)
(* Claims about trapdoors (SpecTd).                                        *)
(***************************************************************************)
\* C10: for trapdoors a, b with equal key fingerprints a.equals(b) and a == b
\* return value = (a.hash == b.hash) with fpr = 2^-(8N) and fnr = 0, so two
\* trapdoors created by one factory from the same value compare true; a != b
\* returns the negated value with fpr = 0 and fnr = 2^-(8N).
C10_TrapdoorEquality ==
    (res.op \in {"equals", "==", "!="} /\ res.lhs.kf = res.rhs.kf) =>
      /\ ~Threw(res)
      /\ res.op \in {"equals", "=="} =>
           /\ res.out.value = (res.lhs.hash = res.rhs.hash)
           /\ res.out.fpr = Pow2Neg(8 * N)
           /\ res.out.fnr = FZero
           /\ res.lhs.src = res.rhs.src => res.out.value
      /\ res.op = "!=" =>
           /\ res.out.value = (res.lhs.hash # res.rhs.hash)
           /\ res.out.fpr = FZero
           /\ res.out.fnr = Pow2Neg(8 * N)
           /\ res.lhs.src = res.rhs.src => ~res.out.value

\* the same value created twice by one factory and compared with equals
C10_Witness ==
    /\ res.op = "equals"
    /\ res.lhs.src = res.rhs.src
    /\ ~Threw(res)
    /\ res.out.value

(***************************************************************************)
(* Claims about symmetric-difference sets (SpecSDS).                       *)
(***************************************************************************)
IsEmptySds(a) == is_zero(a.hash) /\ a.kf = 0

\* C3: the empty set (zero hash, kf = 0) is an identity that adopts its
\* peer's fingerprint on either side: for s with kf = K # 0 both s ^ empty
\* and empty ^ s have hash s.h and fingerprint K, and ^= of a trapdoor into
\* an empty set gives kf = td.kf.
C3_EmptyAdoptsFingerprint ==
    /\ (res.op = "^" /\ IsEmptySds(res.rhs) /\ res.lhs.kf # 0) =>
         ~Threw(res) /\ res.out.hash = res.lhs.hash /\ res.out.kf = res.lhs.kf
    /\ (res.op = "^" /\ IsEmptySds(res.lhs) /\ res.rhs.kf # 0) =>
         ~Threw(res) /\ res.out.hash = res.rhs.hash /\ res.out.kf = res.rhs.kf
    /\ (res.op = "^=" /\ IsEmptySds(res.lhs)) =>
         ~Threw(res) /\ res.out.kf = res.rhs.kf

\* the hash of the items that occur an odd number of times in vs
RECURSIVE XorOfOdd(_, _, _)
XorOfOdd(key, vs, xs) ==
    IF xs = {} THEN hash_value_default
    ELSE LET x == CHOOSE y \in xs : TRUE
             rest == XorOfOdd(key, vs, xs \ {x})
         IN  IF Cardinality({i \in DOMAIN vs : vs[i] = x}) % 2 = 1
             THEN hash_xor(derive(key, std_hash[<<"T", x>>]), rest)
             ELSE rest

\* C4: the sets built by one factory form an abelian group on their hash:
\* (a ^ a).empty() is true, (a ^ empty).equals(a) is true, ^ is associative
\* and commutative on the hash.
C4_GroupLaws ==
    LET a == sds
        e == sds_factory_empty(factory.key)
    IN  /\ ~Threw(sds_xor(a, a)) /\ sds_is_empty(sds_xor(a, a)).value
        /\ ~Threw(sds_xor(a, e))
        /\ ~Threw(sds_equals(sds_xor(a, e), a))
        /\ sds_equals(sds_xor(a, e), a).value
        /\ \A b \in SdsMade, c \in SdsMade :
             /\ ~Threw(sds_xor(a, b)) /\ ~Threw(sds_xor(b, c))
             /\ sds_xor(sds_xor(a, b), c).hash = sds_xor(a, sds_xor(b, c)).hash
             /\ sds_xor(a, b).hash = sds_xor(b, a).hash

\* two sets that are not empty combined into a third that is not empty
C4_Witness ==
    /\ res.op = "^" /\ ~Threw(res)
    /\ res.out = sds
    /\ ~is_zero(sds.hash)
    /\ ~is_zero(res.lhs.hash) /\ ~is_zero(res.rhs.hash)
    /\ sds.hash \notin {res.lhs.hash, res.rhs.hash}

\* C5: from_unique returns the XOR of derive(key, x) over the listed items
\* counted with multiplicity (an item listed an even number of times
\* contributes nothing, no error is raised); its kf is the factory's when
\* the list is non-empty and 0 when it is empty.
C5_FromUniqueCancels ==
    res.op = "from_unique" =>
      /\ ~Threw(res)
      /\ res.out.hash = XorOfOdd(factory.key, res.values, Values)
      /\ res.out.kf = IF res.values = <<>> THEN 0 ELSE key_fingerprint(factory.key)

\* a list in which one item is listed twice and cancels
C5_Witness ==
    /\ res.op = "from_unique" /\ ~Threw(res)
    /\ Len(res.values) = 2
    /\ res.values[1] = res.values[2]
    /\ ~is_zero(derive(factory.key, std_hash[<<"T", res.values[1]>>]))
    /\ is_zero(res.out.hash)
    /\ res.out.kf = key_fingerprint(factory.key)

(***************************************************************************)
(* Claims about boolean sets and key compatibility                         *)
(***************************************************************************)
\* C1: membership has no false negatives: when bs was built by
\* from_collection(c) and x is in c, bs.contains(create(x)) returns
\* value = true with fpr = 0.5 and fnr = 0.
C1_NoFalseNegatives ==
    (res.op = "contains" /\ res.value \in res.lhs.items)
        => /\ "out" \in DOMAIN res
           /\ res.out = approximate_value(TRUE, FHalf, FZero)

\* the fingerprints of the two operands of the last call differ
KeysDiffer == res.op # "init" /\ res.lhs.kf # res.rhs.kf

C6_LatticeLaws ==
    LET a == Bare(bs)
        Of == {x \in BsMade \cup {bs_not(y) : y \in BsMade} : x.kf = a.kf}
    IN  a.kf = key_fingerprint(factory.key) =>
          /\ bs_not(a).kf = a.kf
          /\ \A b \in Of :
               /\ bs_or(a, b) = bs_or(b, a)
               /\ bs_and(a, b) = bs_and(b, a)
               /\ bs_minus(a, b) = bs_and(a, bs_not(b))
               /\ bs_xor(a, b) = bs_and(bs_or(a, b), bs_not(bs_and(a, b)))
               /\ \A r \in {bs_or(a, b), bs_and(a, b), bs_xor(a, b), bs_minus(a, b)} :
                    ~Threw(r) /\ r.kf = a.kf
               /\ \A c \in Of :
                    /\ bs_or(bs_or(a, b), c) = bs_or(a, bs_or(b, c))
                    /\ bs_and(bs_and(a, b), c) = bs_and(a, bs_and(b, c))

\* a proper difference was taken: bs - b with b not empty, leaving a set that
\* is neither bs nor empty
C6_Witness ==
    /\ res.op = "-"
    /\ "out" \in DOMAIN res
    /\ ~is_zero(res.rhs.hash)
    /\ ~is_zero(res.out.hash)
    /\ res.out.hash # res.lhs.hash
    /\ res.out = Bare(bs)

(***************************************************************************)
(* binary_serializer and binary_deserializer.  A std::size_t is SizeBytes  *)
(* bytes in memory, least significant first.                               *)
(***************************************************************************)
\* sizeof(std::size_t)
SizeBytes == 8

\* reinterpret_cast<std::uint8_t const*>(&kf): the n bytes of a std::size_t
RECURSIVE size_to_bytes(_, _)
size_to_bytes(v, n) ==
    IF n = 0 THEN <<>> ELSE <<v % ByteMod>> \o size_to_bytes(v \div ByteMod, n - 1)

\* std::memcpy(&kf, bytes, sizeof(kf))
RECURSIVE size_from_bytes(_)
size_from_bytes(bytes) ==
    IF bytes = <<>> THEN 0 ELSE Head(bytes) + ByteMod * size_from_bytes(Tail(bytes))

\* serialize(hash_value): the N bytes of data
serialize_hash(h) == [j \in 1..N |-> h[j]]

\* serialize writing the fingerprint before the hash
serialize_kf_first(x) == size_to_bytes(x.kf, SizeBytes) \o serialize_hash(x.hash)

\* serialize(trapdoor), serialize(symmetric_difference_set), serialize(boolean_set)
serialize(x) == serialize_hash(x.hash) \o size_to_bytes(x.kf, SizeBytes)

deserialize_hash(bytes) ==
    IF Len(bytes) < N THEN Throw("TruncatedInput") ELSE [j \in 1..N |-> bytes[j]]

\* deserialize_trapdoor checking the size of the hash only
deserialize_trapdoor_hash_size_only(bytes) ==
    IF Len(bytes) < N THEN Throw("TruncatedInput")
    ELSE trapdoor(deserialize_hash(SubSeq(bytes, 1, N)),
                  size_from_bytes(SubSeq(bytes, N + 1, Len(bytes))))

deserialize_trapdoor(bytes) ==
    IF Len(bytes) < N + SizeBytes THEN Throw("TruncatedInput")
    ELSE trapdoor(deserialize_hash(SubSeq(bytes, 1, N)),
                  size_from_bytes(SubSeq(bytes, N + 1, N + SizeBytes)))

deserialize_sym_diff_set(bytes) ==
    IF Len(bytes) < N + SizeBytes THEN Throw("TruncatedInput")
    ELSE symmetric_difference_set(deserialize_hash(SubSeq(bytes, 1, N)),
                                  size_from_bytes(SubSeq(bytes, N + 1, N + SizeBytes)))

deserialize_boolean_set(bytes) ==
    IF Len(bytes) < N + SizeBytes THEN Throw("TruncatedInput")
    ELSE boolean_set(deserialize_hash(SubSeq(bytes, 1, N)),
                     size_from_bytes(SubSeq(bytes, N + 1, N + SizeBytes)))

(***************************************************************************)
(* Specification of serialization: the client serializes objects and hands *)
(* buffers to the deserializers.  A buffer is the serialization of an      *)
(* object src with extra bytes after it, cut to some length.               *)
(***************************************************************************)
\* the bytes of the sampled hashes and of the bytes that follow a buffer
SampleBytes == {0, ByteMod - 1}

\* the fingerprints of the sampled objects: 0 and numbers of 1..MaxShift + 1 bytes
SampleKfs == {0} \cup {ByteMod ^ i + j : i \in 0..MaxShift, j \in 0..1}

InitSer ==
    /\ std_hash = <<>>
    /\ factory = NoObject
    /\ ab = NoObject
    /\ td = trapdoor(hash_value_default, 0)
    /\ sds = sds_default
    /\ bs = bs_default
    /\ cmp = NoObject
    /\ res = [op |-> "init"]

\* the client constructs a trapdoor and two sets from a hash and a fingerprint
SerConstruct(h, kf) ==
    /\ td' = trapdoor(h, kf)
    /\ sds' = symmetric_difference_set(h, kf)
    /\ bs' = boolean_set(h, kf)
    /\ res' = [op |-> "construct"]
    /\ UNCHANGED <<std_hash, factory, ab, cmp>>

Serialize(kind, x) ==
    /\ res' = [op |-> "serialize", kind |-> kind, lhs |-> x, out |-> serialize(x)]
    /\ NothingElse

\* the record of a deserializer called on buf, cut from the serialization of src
Deserialized(name, src, buf, r) ==
    IF Threw(r) THEN [op |-> name, src |-> src, buf |-> buf, err |-> r.err]
    ELSE [op |-> name, src |-> src, buf |-> buf, out |-> r]

DeserializeTrapdoor(extra, len) ==
    LET buf == SubSeq(serialize(td) \o extra, 1, len)
    IN  /\ res' = Deserialized("deserialize_trapdoor", td, buf, deserialize_trapdoor(buf))
        /\ NothingElse

DeserializeSymDiffSet(extra, len) ==
    LET buf == SubSeq(serialize(sds) \o extra, 1, len)
    IN  /\ res' = Deserialized("deserialize_sym_diff_set", sds, buf,
                               deserialize_sym_diff_set(buf))
        /\ NothingElse

DeserializeBooleanSet(extra, len) ==
    LET buf == SubSeq(serialize(bs) \o extra, 1, len)
    IN  /\ res' = Deserialized("deserialize_boolean_set", bs, buf,
                               deserialize_boolean_set(buf))
        /\ NothingElse

NextSer ==
    \/ \E h \in [1..N -> SampleBytes], kf \in SampleKfs : SerConstruct(h, kf)
    \/ Serialize("trapdoor", td)
    \/ Serialize("symmetric_difference_set", sds)
    \/ Serialize("boolean_set", bs)
    \/ \E n \in 0..MaxExtra :
         \E extra \in [1..n -> SampleBytes], len \in 0..(N + SizeBytes + n) :
           \/ DeserializeTrapdoor(extra, len)
           \/ DeserializeSymDiffSet(extra, len)
           \/ DeserializeBooleanSet(extra, len)

SpecSer == InitSer /\ [][NextSer]_vars

(***************************************************************************)
(* Claims about serialization (SpecSer).                                   *)
(***************************************************************************)
\* C11: serialization round-trips bit-exactly: serialize(x) has exactly
\* N + 8 bytes, the hash first and then the fingerprint, and each
\* deserializer applied to serialize(x) yields the hash and the fingerprint
\* of x, for any hash and any fingerprint, 0 included.
C11_RoundTrip ==
    /\ res.op = "serialize" =>
         /\ Len(res.out) = N + 8
         /\ SubSeq(res.out, 1, N) = res.lhs.hash
         /\ SubSeq(res.out, N + 1, N + 8) = size_to_bytes(res.lhs.kf, 8)
    /\ (/\ res.op \in {"deserialize_trapdoor", "deserialize_sym_diff_set",
                       "deserialize_boolean_set"}
        /\ res.buf = serialize(res.src)) =>
         /\ ~Threw(res)
         /\ res.out.hash = res.src.hash
         /\ res.out.kf = res.src.kf

\* the serialization of a set with a non-zero hash and a fingerprint of
\* more than one byte was deserialized
C11_Witness ==
    /\ res.op = "deserialize_sym_diff_set"
    /\ res.buf = serialize(res.src)
    /\ ~is_zero(res.src.hash)
    /\ res.src.kf >= ByteMod
    /\ "out" \in DOMAIN res

\* C12: each deserializer raises the truncated-input error and produces no
\* value when the buffer has fewer than N + 8 bytes; with N + 8 bytes or
\* more it succeeds, and its result is determined by the first N + 8 bytes.
C12_TruncatedInput ==
    res.op \in {"deserialize_trapdoor", "deserialize_sym_diff_set",
                "deserialize_boolean_set"} =>
      IF Len(res.buf) < N + 8
      THEN "out" \notin DOMAIN res /\ "err" \in DOMAIN res /\ res.err = "TruncatedInput"
      ELSE /\ "err" \notin DOMAIN res
           /\ res.out.hash = SubSeq(res.buf, 1, N)
           /\ res.out.kf = size_from_bytes(SubSeq(res.buf, N + 1, N + 8))

\* a buffer one byte short of N + 8 was refused
C12_Witness ==
    /\ res.op = "deserialize_trapdoor"
    /\ Len(res.buf) = N + 8 - 1
    /\ "err" \in DOMAIN res

(***************************************************************************)
(* threshold_scheme<N>.  std::size_t arithmetic wraps: 0 - 1 is SIZE_MAX,  *)
(* which no vector size reaches.                                           *)
(***************************************************************************)
threshold_scheme(k, n) ==
    IF k > n THEN Throw("InvalidThreshold") ELSE [threshold |-> k, total |-> n]

\* last_share = last_share ^ shares[i] for i < m
RECURSIVE xor_shares(_, _, _)
xor_shares(h, shares, m) ==
    IF m = 0 THEN h ELSE hash_xor(xor_shares(h, shares, m - 1), shares[m])

\* create_shares: the vector it returns, in the field shares, or the throw;
\* rnd are the total_ - 1 words std::rand() fills.  With
\* total_ = 0 the bound total_ - 1 of the first loop is SIZE_MAX and the
\* loop pushes shares until the allocation fails; with threshold_ = 0 the
\* bound threshold_ - 1 of the second loop is SIZE_MAX and shares.size()
\* alone ends it.
create_shares(s, t, rnd) ==
    IF s.total = 0 THEN Throw("bad_alloc")
    ELSE LET m == IF s.threshold = 0 \/ s.threshold - 1 > Len(rnd)
                  THEN Len(rnd) ELSE s.threshold - 1
         IN  [shares |-> Append(rnd, xor_shares(t.hash, rnd, m))]

\* reconstruct; junk is what shares[0] reads from an empty vector
reconstruct(s, shares, kf, junk) ==
    IF Len(shares) < s.threshold THEN Throw("InsufficientShares")
    ELSE IF shares = <<>> THEN trapdoor(junk, kf)
    ELSE trapdoor(xor_shares(shares[1], Tail(shares),
                             IF s.threshold = 0 THEN 0 ELSE s.threshold - 1), kf)

(***************************************************************************)
(* Specification of threshold sharing: the client holds a trapdoor td,     *)
(* constructs a scheme (kept in factory), shares td and reconstructs from  *)
(* some of the shares of the last create_shares.                           *)
(***************************************************************************)
\* the words std::rand() & 0xFF fills a share with
RandWords == [1..N -> 0..MaxRand]

InitThreshold ==
    /\ std_hash = <<>>
    /\ factory = NoObject
    /\ ab = NoObject
    /\ td \in {trapdoor(h, kf) : h \in RandWords, kf \in {MaxKey}}
    /\ sds = NoObject
    /\ bs = NoObject
    /\ cmp = NoObject
    /\ res = [op |-> "init"]

ThresholdConstruct(k, n) ==
    LET r == threshold_scheme(k, n)
    IN  /\ factory' = IF Threw(r) THEN factory ELSE r
        /\ res' = IF Threw(r)
                  THEN [op |-> "threshold_scheme", k |-> k, n |-> n, err |-> r.err]
                  ELSE [op |-> "threshold_scheme", k |-> k, n |-> n, out |-> r]
        /\ UNCHANGED <<std_hash, ab, td, sds, bs, cmp>>

CreateShares(rnd) ==
    /\ factory # NoObject
    /\ Len(rnd) = (IF factory.total = 0 THEN 0 ELSE factory.total - 1)
    /\ LET r == create_shares(factory, td, rnd)
       IN  res' = IF Threw(r)
                  THEN [op |-> "create_shares", scheme |-> factory, err |-> r.err]
                  ELSE [op |-> "create_shares", scheme |-> factory, shares |-> r.shares]
    /\ NothingElse

\* reconstruct from the shares at the positions idx of the last create_shares
Reconstruct(idx, kf, junk) ==
    /\ "shares" \in DOMAIN res
    /\ res.scheme = factory
    /\ \A i \in DOMAIN idx : idx[i] <= Len(res.shares)
    /\ \A i, j \in DOMAIN idx : i < j => idx[i] < idx[j]
    /\ LET r == reconstruct(factory, [i \in DOMAIN idx |-> res.shares[idx[i]]], kf, junk)
       IN  res' = IF Threw(r)
                  THEN [op |-> "reconstruct", scheme |-> factory, shares |-> res.shares,
                        idx |-> idx, kf |-> kf, err |-> r.err]
                  ELSE [op |-> "reconstruct", scheme |-> factory, shares |-> res.shares,
                        idx |-> idx, kf |-> kf, out |-> r]
    /\ NothingElse

NextThreshold ==
    \/ \E k, n \in 0..MaxTotal : ThresholdConstruct(k, n)
    \/ \E n \in 0..MaxTotal : \E rnd \in [1..n -> RandWords] : CreateShares(rnd)
    \/ \E m \in 0..MaxTotal :
         \E idx \in [1..m -> 1..MaxTotal], kf \in {0, td.kf}, junk \in RandWords :
           Reconstruct(idx, kf, junk)

SpecThreshold == InitThreshold /\ [][NextThreshold]_vars

(***************************************************************************)
(* Claims about threshold sharing (SpecThreshold).                         *)
(***************************************************************************)
\* C13: constructing threshold_scheme(k, n) fails with the invalid-threshold
\* error whenever k > n or k = 0, and succeeds only for 1 <= k <= n.
C13_InvalidThreshold ==
    res.op = "threshold_scheme" =>
      IF res.k > res.n \/ res.k = 0
      THEN "out" \notin DOMAIN res /\ "err" \in DOMAIN res /\ res.err = "InvalidThreshold"
      ELSE "out" \in DOMAIN res

\* C14: k-of-n sharing: the XOR of any k distinct shares returned by
\* create_shares(td) equals td.hash, so reconstruct over any k of the n
\* shares returns a trapdoor equal to td.
C14_AnyKShares ==
    (/\ res.op = "reconstruct"
     /\ res.scheme.threshold >= 1
     /\ Len(res.idx) = res.scheme.threshold) =>
      /\ "out" \in DOMAIN res
      /\ res.out.hash = td.hash
      /\ res.kf = td.kf => res.out = td

\* C15: prefix reconstruction: reconstruct applied to the first k shares
\* returned by create_shares(td), with kf = td.kf, yields a trapdoor whose
\* hash equals td.hash and whose fingerprint equals td.kf.
C15_PrefixReconstruction ==
    (/\ res.op = "reconstruct"
     /\ res.scheme.threshold >= 1
     /\ res.idx = [i \in 1..res.scheme.threshold |-> i]
     /\ res.kf = td.kf) =>
      /\ "out" \in DOMAIN res
      /\ res.out.hash = td.hash
      /\ res.out.kf = td.kf

\* C16: create_shares terminates and returns exactly n shares for every
\* scheme (k, n) the constructor accepts, the boundary values included.
C16_ExactlyNShares ==
    res.op = "create_shares" =>
      /\ "shares" \in DOMAIN res
      /\ Len(res.shares) = res.scheme.total

(***************************************************************************)
(* compound_trapdoor::multiply.                                            *)
(***************************************************************************)
\* result = result & components_[i].hash() for i < n, from components_[0]
RECURSIVE multiply_loop(_, _)
multiply_loop(components, n) ==
    IF n = 1 THEN components[1].hash
    ELSE hash_and(multiply_loop(components, n - 1), components[n].hash)

\* multiply whose loop never runs
multiply_first_only(c) ==
    IF c.components = <<>> THEN Throw("EmptyCompound")
    ELSE trapdoor(multiply_loop(c.components, 1), c.kf)

multiply(c) ==
    IF c.components = <<>> THEN Throw("EmptyCompound")
    ELSE trapdoor(multiply_loop(c.components, Len(c.components)), c.kf)

(***************************************************************************)
(* Specification of compound trapdoors: the client constructs a compound   *)
(* cmp, adds trapdoors of any factory to it and multiplies.                *)
(***************************************************************************)
InitCompound ==
    /\ InitPlainOracle
    /\ factory = NoObject
    /\ ab = NoObject
    /\ td = NoObject
    /\ sds = NoObject
    /\ bs = NoObject
    /\ cmp = compound_trapdoor(0)
    /\ res = [op |-> "init"]

CompoundConstruct(kf) ==
    /\ cmp' = compound_trapdoor(kf)
    /\ res' = [op |-> "compound_trapdoor", out |-> cmp']
    /\ UNCHANGED <<std_hash, factory, ab, td, sds, bs>>

AddComponent(t) ==
    /\ Len(cmp.components) < MaxComponents
    /\ LET r == add_component(cmp, t)
       IN  /\ cmp' = IF Threw(r) THEN cmp ELSE r
           /\ res' = Call2("add_component", cmp, t, r)
    /\ UNCHANGED <<std_hash, factory, ab, td, sds, bs>>

Multiply ==
    /\ res' = IF Threw(multiply(cmp))
              THEN [op |-> "multiply", lhs |-> cmp, err |-> multiply(cmp).err]
              ELSE [op |-> "multiply", lhs |-> cmp, out |-> multiply(cmp)]
    /\ NothingElse

NextCompound ==
    \/ \E kf \in 0..MaxKey : CompoundConstruct(kf)
    \/ \E t \in TdPool : AddComponent(t)
    \/ Multiply

SpecCompound == InitCompound /\ [][NextCompound]_vars

(***************************************************************************)
(* Claims about compound trapdoors (SpecCompound).                         *)
(***************************************************************************)
\* C17: multiply raises the empty-compound error when no component has been
\* added; after any sequence of successful add_component calls it returns a
\* trapdoor whose hash is the bitwise AND of all added component hashes (a
\* bit is set in it exactly when it is set in every component) and whose
\* fingerprint is the compound's.
C17_MultiplyIsAnd ==
    res.op = "multiply" =>
      IF res.lhs.components = <<>>
      THEN "out" \notin DOMAIN res /\ "err" \in DOMAIN res /\ res.err = "EmptyCompound"
      ELSE /\ "err" \notin DOMAIN res
           /\ res.out.kf = res.lhs.kf
           /\ \A j \in 1..N, b \in 0..(ByteBits - 1) :
                ((res.out.hash[j] \div 2 ^ b) % 2 = 1)
                  <=> \A i \in DOMAIN res.lhs.components :
                        (res.lhs.components[i].hash[j] \div 2 ^ b) % 2 = 1

\* a compound of two components with different hashes was multiplied
C17_Witness ==
    /\ res.op = "multiply"
    /\ Len(res.lhs.components) = 2
    /\ res.lhs.components[1].hash # res.lhs.components[2].hash
    /\ "out" \in DOMAIN res

(***************************************************************************)
(* cardinality_estimator, linear_counter, adaptive_cardinality and         *)
(* jaccard_similarity, instantiated at their default width N = 32.  A      *)
(* std::size_t estimate is an integer; error rates are doubles.            *)
(***************************************************************************)
\* template <std::size_t N = 32>
DefaultN == 32

precision_bits == 6

num_buckets == 2 ^ precision_bits

\* alpha * num_buckets * num_buckets in units of 1/256, rounded down, with
\* alpha = 0.7213 / (1.0 + 1.079 / num_buckets)
AlphaBuckets256 == 743797

\* std::popcount of a byte
RECURSIVE popcount(_)
popcount(b) == IF b = 0 THEN 0 ELSE (b % 2) + popcount(b \div 2)

\* std::countr_zero of a non-zero byte
RECURSIVE countr_zero(_)
countr_zero(b) == IF b % 2 = 1 THEN 0 ELSE 1 + countr_zero(b \div 2)

\* std::accumulate over a vector of integers
RECURSIVE accumulate(_)
accumulate(s) == IF s = <<>> THEN 0 ELSE Head(s) + accumulate(Tail(s))

\* num_buckets * std::log(static_cast<double>(num_buckets) / zeros) converted
\* to std::size_t, for zeros = 1..num_buckets
LogEstimate ==
    <<266, 221, 195, 177, 163, 151, 141, 133, 125, 118, 112, 107, 102, 97,
      92, 88, 84, 81, 77, 74, 71, 68, 65, 62, 60, 57, 55, 52, 50, 48, 46,
      44, 42, 40, 38, 36, 35, 33, 31, 30, 28, 26, 25, 23, 22, 21, 19, 18,
      17, 15, 14, 13, 12, 10, 9, 8, 7, 6, 5, 4, 3, 2, 1, 0>>

\* std::sqrt(std::exp(load_factor) - load_factor - 1) / std::sqrt(bit_array_size)
\* in units of 2^-20, for set_bits = 0..255 (entry set_bits + 1)
LinearError ==
    <<0, 181, 363, 544, 726, 908, 1090, 1273, 1456, 1639, 1822, 2006, 2189,
      2373, 2558, 2742, 2927, 3112, 3297, 3482, 3668, 3854, 4040, 4227,
      4413, 4600, 4788, 4975, 5163, 5351, 5539, 5727, 5916, 6105, 6294,
      6483, 6673, 6863, 7053, 7244, 7434, 7625, 7817, 8008, 8200, 8392,
      8584, 8776, 8969, 9162, 9355, 9549, 9743, 9937, 10131, 10326, 10521,
      10716, 10911, 11107, 11303, 11499, 11695, 11892, 12089, 12286, 12483,
      12681, 12879, 13078, 13276, 13475, 13674, 13873, 14073, 14273, 14473,
      14674, 14874, 15075, 15277, 15478, 15680, 15882, 16085, 16287, 16490,
      16694, 16897, 17101, 17305, 17509, 17714, 17919, 18124, 18330, 18535,
      18741, 18948, 19154, 19361, 19569, 19776, 19984, 20192, 20400, 20609,
      20818, 21027, 21237, 21446, 21656, 21867, 22078, 22289, 22500, 22711,
      22923, 23135, 23348, 23561, 23774, 23987, 24201, 24415, 24629, 24844,
      25058, 25274, 25489, 25705, 25921, 26137, 26354, 26571, 26788, 27006,
      27224, 27442, 27661, 27879, 28099, 28318, 28538, 28758, 28978, 29199,
      29420, 29641, 29863, 30085, 30307, 30530, 30753, 30976, 31200, 31424,
      31648, 31872, 32097, 32322, 32548, 32774, 33000, 33226, 33453, 33680,
      33908, 34135, 34364, 34592, 34821, 35050, 35279, 35509, 35739, 35970,
      36200, 36431, 36663, 36895, 37127, 37359, 37592, 37825, 38058, 38292,
      38526, 38761, 38996, 39231, 39466, 39702, 39938, 40175, 40412, 40649,
      40886, 41124, 41363, 41601, 41840, 42079, 42319, 42559, 42800, 43040,
      43281, 43523, 43765, 44007, 44249, 44492, 44735, 44979, 45223, 45467,
      45712, 45957, 46202, 46448, 46694, 46940, 47187, 47434, 47682, 47930,
      48178, 48427, 48676, 48925, 49175, 49425, 49676, 49927, 50178, 50430,
      50682, 50934, 51187, 51440, 51694, 51948, 52202, 52457, 52712, 52967,
      53223, 53479, 53736, 53993, 54250, 54508, 54766, 55025, 55283>>

\* cardinality_estimator::estimate: estimate_from_hash(set.hash()).  The sum
\* of std::pow(2.0, -m) over the buckets is kept in units of 1/256.
cardinality_estimator_estimate(s) ==
    LET buckets == [i \in 1..num_buckets |->
                      IF i > DefaultN THEN 0
                      ELSE IF s.hash[i] = 0 THEN 8 ELSE countr_zero(s.hash[i])]
        raw == AlphaBuckets256 \div accumulate([i \in 1..num_buckets |-> 2 ^ (8 - buckets[i])])
        zeros == Cardinality({i \in 1..num_buckets : buckets[i] = 0})
    IN  approximate_value(IF 2 * raw < 5 * num_buckets /\ zeros # 0
                          THEN LogEstimate[zeros] ELSE raw,
                          FQuot(FDiv(104, 100), FSqrt(IntToF(num_buckets))), FZero)

\* linear_counter::estimate: estimate_from_hash(set.hash()).  -bit_array_size
\* is 2^64 - 256, so the double estimate is 0 for an empty hash and below
\* -2^56 otherwise; converting that to std::size_t is undefined, and ub is
\* what the conversion yields.
linear_counter_estimate(s, ub) ==
    LET n_set_bits == accumulate([i \in 1..DefaultN |-> popcount(s.hash[i])])
    IN  IF DefaultN * ByteBits - n_set_bits = 0
        THEN approximate_value(DefaultN * ByteBits, FHalf, FZero)
        ELSE approximate_value(IF n_set_bits = 0 THEN 0 ELSE ub,
                               FNorm(LinearError[n_set_bits + 1], -20), FZero)

\* adaptive_cardinality::estimate
adaptive_cardinality_estimate(s, ub) ==
    IF linear_counter_estimate(s, ub).value < 100
    THEN linear_counter_estimate(s, ub)
    ELSE cardinality_estimator_estimate(s)

\* jaccard_similarity::estimate on boolean sets
jaccard_estimate(a, b) ==
    IF Threw(bs_and(a, b)) THEN bs_and(a, b)
    ELSE LET card_inter == cardinality_estimator_estimate(bs_and(a, b))
             card_union == cardinality_estimator_estimate(bs_or(a, b))
         IN  IF card_union.value = 0 THEN approximate_value(FOne, FZero, FZero)
             ELSE approximate_value(FDiv(card_inter.value, card_union.value),
                                    FMax(error_rate(card_inter), error_rate(card_union)),
                                    FZero)

\* jaccard_similarity::estimate on symmetric-difference sets
jaccard_estimate_sds(a, b) ==
    LET common_bits == accumulate([i \in 1..DefaultN |-> popcount(ByteAnd(a.hash[i], b.hash[i]))])
        total_bits == accumulate([i \in 1..DefaultN |-> popcount(ByteOr(a.hash[i], b.hash[i]))])
    IN  IF total_bits = 0 THEN approximate_value(FOne, FZero, FZero)
        ELSE approximate_value(FDiv(common_bits, total_bits),
                               FQuot(FOne, FSqrt(IntToF(total_bits))), FZero)

(***************************************************************************)
(* Specification of the estimators: the client holds a boolean set bs and  *)
(* a symmetric-difference set sds of width DefaultN, estimates their       *)
(* cardinality and compares them with other sets.  sds.items is history:   *)
(* the number of distinct values from_unique built sds from.               *)
(***************************************************************************)
\* the words of the sets: some leading bytes all x, the other bytes 0
CardWords ==
    {[j \in 1..DefaultN |-> IF j <= DefaultN \div 2 ^ i THEN x ELSE 0] :
        i \in 0..MaxHalvings, x \in {0, 1, ByteMod - 1}}

\* what the conversion of a double below 0 to std::size_t yields: 0, or a
\* number of 2^63 or more (here the largest integer)
UBSizes == {0, 2147483647}

InitCard ==
    /\ std_hash = <<>>
    /\ factory = NoObject
    /\ ab = NoObject
    /\ td = NoObject
    /\ sds = [hash |-> [j \in 1..DefaultN |-> 0], kf |-> 0, items |-> 0]
    /\ bs = boolean_set([j \in 1..DefaultN |-> 0], 0)
    /\ cmp = NoObject
    /\ res = [op |-> "init"]

\* the client constructs the boolean set of a word
CardBooleanSet(w, kf) ==
    /\ bs' = boolean_set(w, kf)
    /\ res' = [op |-> "boolean_set", out |-> bs']
    /\ UNCHANGED <<std_hash, factory, ab, td, sds, cmp>>

\* bs = bs | c
CardUnion(c) ==
    /\ bs' = IF Threw(bs_or(bs, c)) THEN bs ELSE bs_or(bs, c)
    /\ res' = Call2("bs|", bs, c, bs_or(bs, c))
    /\ UNCHANGED <<std_hash, factory, ab, td, sds, cmp>>

\* from_unique over 1000 distinct integers, whose derived hashes XOR to w
CardFromUnique(w, kf) ==
    /\ sds' = [hash |-> w, kf |-> kf, items |-> 1000]
    /\ res' = [op |-> "from_unique", out |-> sds']
    /\ UNCHANGED <<std_hash, factory, ab, td, bs, cmp>>

CardinalityEstimate(s) ==
    /\ res' = [op |-> "cardinality_estimator", lhs |-> s,
               out |-> cardinality_estimator_estimate(s)]
    /\ NothingElse

LinearEstimate(s, ub) ==
    /\ res' = [op |-> "linear_counter", lhs |-> s, out |-> linear_counter_estimate(s, ub)]
    /\ NothingElse

AdaptiveEstimate(s, ub) ==
    /\ res' = [op |-> "adaptive_cardinality", lhs |-> s,
               linear |-> linear_counter_estimate(s, ub),
               out |-> adaptive_cardinality_estimate(s, ub)]
    /\ NothingElse

JaccardEstimate(b) ==
    /\ res' = Call2("jaccard", bs, b, jaccard_estimate(bs, b))
    /\ NothingElse

JaccardEstimateSds(b) ==
    /\ res' = Call2("jaccard_sds", sds, b, jaccard_estimate_sds(sds, b))
    /\ NothingElse

NextCard ==
    \/ \E w \in CardWords, kf \in Keys : CardBooleanSet(w, kf)
    \/ \E w \in CardWords, kf \in Keys : CardUnion(boolean_set(w, kf))
    \/ \E w \in CardWords, kf \in Keys : CardFromUnique(w, kf)
    \/ \E s \in {bs, sds} : CardinalityEstimate(s)
    \/ \E s \in {bs, sds}, ub \in UBSizes : LinearEstimate(s, ub)
    \/ \E s \in {bs, sds}, ub \in UBSizes : AdaptiveEstimate(s, ub)
    \/ \E w \in CardWords, kf \in Keys : JaccardEstimate(boolean_set(w, kf))
    \/ \E w \in CardWords, kf \in Keys : JaccardEstimateSds(symmetric_difference_set(w, kf))

SpecCard == InitCard /\ [][NextCard]_vars

(***************************************************************************)
(* Claims about the estimators (SpecCard).                                 *)
(***************************************************************************)
\* C18: Jaccard estimates are bounded: for all boolean sets a, b of one key
\* and for all symmetric-difference sets a, b, estimate(a, b).value lies in
\* [0, 1], and estimate(a, a).value = 1.0.
C18_JaccardBounded ==
    (res.op = "jaccard_sds" \/ (res.op = "jaccard" /\ res.lhs.kf = res.rhs.kf)) =>
      /\ "out" \in DOMAIN res
      /\ InUnit(res.out.value)
      /\ (res.lhs.hash = res.rhs.hash /\ res.lhs.kf = res.rhs.kf) => res.out.value = FOne

\* C19: adaptive_cardinality returns the linear-counting estimate when that
\* estimate is < 100 and the HyperLogLog estimate otherwise, and for a
\* symmetric-difference set built from 1000 distinct integers (N = 32) the
\* returned estimate lies within 850..1150 with error rate about 0.13.
C19_AdaptiveEstimate ==
    res.op = "adaptive_cardinality" =>
      /\ res.out = (IF res.linear.value < 100 THEN res.linear
                    ELSE cardinality_estimator_estimate(res.lhs))
      /\ ("items" \in DOMAIN res.lhs /\ res.lhs.items = 1000) =>
           /\ res.out.value \in 850..1150
           /\ FLe(FDiv(12, 100), error_rate(res.out))
           /\ FLe(error_rate(res.out), FDiv(14, 100))

\* C20: cardinality monotonicity: for boolean sets A and B = A | C of one
\* key, each estimator (linear counting, HyperLogLog, adaptive) gives
\* estimate(A) <= estimate(B) + error_rate(B) * estimate(B), whatever the
\* undefined conversions yield.  An error rate <<m, e>> is m * 2^e.
C20_Monotonic ==
    (res.op = "bs|" /\ "out" \in DOMAIN res) =>
      \A ua, ub \in UBSizes :
        \A est \in {<<cardinality_estimator_estimate(res.lhs),
                      cardinality_estimator_estimate(res.out)>>,
                    <<linear_counter_estimate(res.lhs, ua),
                      linear_counter_estimate(res.out, ub)>>,
                    <<adaptive_cardinality_estimate(res.lhs, ua),
                      adaptive_cardinality_estimate(res.out, ub)>>} :
          \/ est[1].value <= est[2].value
          \/ est[1].value - est[2].value
               <= (est[2].value * error_rate(est[2])[1]) \div 2 ^ (-error_rate(est[2])[2])

(***************************************************************************)
(* Specification of MinHash: the client constructs a minhash object (its   *)
(* trapdoor factory and num_hashes_) and asks it for the signatures of     *)
(* collections.  std::hash is free on the salted strings as well.          *)
(***************************************************************************)
InitMinHash ==
    /\ std_hash \in [PlainInputs \cup SaltedInputs -> 0..MaxStdHash]
    /\ factory = NoObject
    /\ ab = NoObject
    /\ td = NoObject
    /\ sds = NoObject
    /\ bs = NoObject
    /\ cmp = NoObject
    /\ res = [op |-> "init"]

\* minhash(secret, num_hashes)
MinHashConstruct(k, m) ==
    /\ factory' = [key |-> k, num_hashes |-> m]
    /\ res' = [op |-> "minhash", out |-> factory']
    /\ UNCHANGED <<std_hash, ab, td, sds, bs, cmp>>

\* factory.generate_signature(values)
GenerateSignature(values) ==
    /\ factory # NoObject
    /\ res' = [op |-> "generate_signature", lhs |-> factory, values |-> values,
               out |-> generate_signature(factory.key, factory.num_hashes, values)]
    /\ NothingElse

NextMinHash ==
    \/ \E k \in Keys, m \in 1..MaxHashes : MinHashConstruct(k, m)
    \/ \E values \in Collections : GenerateSignature(values)

SpecMinHash == InitMinHash /\ [][NextMinHash]_vars

\* the projection of item val on coordinate i (0-based) under a minhash object
Projection(mh, i, val) ==
    hash_val_loop(create(mh.key, <<"s", i, std_hash[<<"T", val>>]>>), 0,
                  [j \in 1..UInt32Bytes |-> 0])

RECURSIVE mt19937(_, _)
mt19937(seed, n) ==
    IF n = 0 THEN seed % ByteMod ELSE (5 * mt19937(seed, n - 1) + 3) % ByteMod

\* lsh_index(secret, num_bands, band_size): family i (0-based) draws its
\* band_size projection indices after those of the families before it
lsh_index(key, num_bands, band_size) ==
    [key |-> key,
     families |-> [i \in 1..num_bands |->
                     [j \in 1..band_size |->
                        mt19937(key, (i - 1) * band_size + j) % (N * ByteBits)]],
     num_bands |-> num_bands,
     band_size |-> band_size]

\* band_hash = (band_hash << 1) | bit over the first n projection indices
RECURSIVE band_hash(_, _, _)
band_hash(hash, indices, n) ==
    IF n = 0 THEN 0
    ELSE LET idx == indices[n]
             bit == (hash[idx \div ByteBits + 1] \div 2 ^ (idx % ByteBits)) % 2
         IN  2 * band_hash(hash, indices, n - 1) + bit

\* lsh_index::generate_signature
lsh_generate_signature(index, t) ==
    [bands |-> [i \in 1..Len(index.families) |->
                  band_hash(t.hash, index.families[i], Len(index.families[i]))],
     kf |-> t.kf]

\* the largest r with r^n <= v
IRoot(v, n) == CHOOSE r \in 0..(2 ^ (MantBits + 3)) : r ^ n <= v /\ (r + 1) ^ n > v

\* std::pow(x, 1.0 / n) for x in [0, 1] or NaN and an unsigned n (1.0 / 0 is
\* +infinity): the n-th root, rounded
pow_root(x, n) ==
    IF IsNaN(x) THEN NaN
    ELSE IF x = FOne THEN FOne
    ELSE IF x = FZero \/ n = 0 THEN FZero
    ELSE LET s0 == n * (MantBits + 2) - MantBits
             s == s0 + ((x[2] - s0) % n)
             v == x[1] * 2 ^ s
             r == IRoot(v, n)
         IN  FNorm(2 * r + (IF r ^ n = v THEN 0 ELSE 1), ((x[2] - s) \div n) - 1)

\* +infinity, the double 1.0 / std::sqrt(0)
Infinity == <<0, 2>>

\* lsh_index::are_similar
are_similar(index, sig_a, sig_b, threshold) ==
    IF sig_a.kf # sig_b.kf THEN approximate_value(FALSE, FZero, FOne)
    ELSE LET matches == Cardinality({i \in 1..Len(sig_a.bands) :
                                        sig_a.bands[i] = sig_b.bands[i]})
             match_ratio == FDiv(matches, index.num_bands)
             estimated_similarity ==
                 pow_root(FSub(FOne, pow_root(FSub(FOne, match_ratio), index.num_bands)),
                          index.band_size)
             is_similar == FLe(threshold, estimated_similarity)
             lsh_error_rate == IF index.num_bands = 0 THEN Infinity
                               ELSE FQuot(FOne, FSqrt(IntToF(index.num_bands)))
         IN  approximate_value(is_similar, lsh_error_rate, FZero)

(***************************************************************************)
(* Specification of LSH: the client constructs an lsh_index, generates     *)
(* signatures of trapdoors with it and asks whether two are similar.       *)
(***************************************************************************)
\* the thresholds handed to are_similar
Thresholds == {FNeg(FOne), FZero, FHalf, FOne}

InitLsh ==
    /\ InitPlainOracle
    /\ factory = NoObject
    /\ ab = NoObject
    /\ td = NoObject
    /\ sds = NoObject
    /\ bs = NoObject
    /\ cmp = NoObject
    /\ res = [op |-> "init"]

\* lsh_index(secret, num_bands, band_size)
LshConstruct(k, num_bands, band_size) ==
    /\ factory' = lsh_index(k, num_bands, band_size)
    /\ res' = [op |-> "lsh_index", out |-> factory']
    /\ UNCHANGED <<std_hash, ab, td, sds, bs, cmp>>

\* factory.generate_signature(t)
LshGenerateSignature(t) ==
    /\ factory # NoObject
    /\ res' = [op |-> "lsh_generate_signature", lhs |-> factory, rhs |-> t,
               out |-> lsh_generate_signature(factory, t)]
    /\ NothingElse

\* factory.are_similar(factory.generate_signature(a),
\*                     factory.generate_signature(b), threshold)
LshAreSimilar(a, b, threshold) ==
    /\ factory # NoObject
    /\ res' = [op |-> "are_similar", index |-> factory, threshold |-> threshold,
               lhs |-> lsh_generate_signature(factory, a),
               rhs |-> lsh_generate_signature(factory, b),
               out |-> are_similar(factory, lsh_generate_signature(factory, a),
                                   lsh_generate_signature(factory, b), threshold)]
    /\ NothingElse

NextLsh ==
    \/ \E k \in Keys, num_bands \in 0..MaxBands, band_size \in 0..MaxBandSize :
         LshConstruct(k, num_bands, band_size)
    \/ \E t \in TdPool : LshGenerateSignature(t)
    \/ \E a, b \in TdPool, threshold \in Thresholds : LshAreSimilar(a, b, threshold)

SpecLsh == InitLsh /\ [][NextLsh]_vars

\* C22: LSH signatures are deterministic in the key: the signature an
\* lsh_index generates for a trapdoor, however many signatures it generated
\* before, is the one a second lsh_index built from the same secret, band
\* count and band size generates for it; consequently
\* are_similar(sig(t), sig(t), tau).value is true for every tau <= 1.
C22_LshDeterministic ==
    /\ res.op = "lsh_generate_signature" =>
         res.out = lsh_generate_signature(
                       lsh_index(res.lhs.key, res.lhs.num_bands, res.lhs.band_size), res.rhs)
    /\ (res.op = "are_similar" /\ res.lhs = res.rhs /\ FLe(res.threshold, FOne)) =>
         res.out.value = TRUE

(***************************************************************************)
(* Further claims about threshold sharing (SpecThreshold).                 *)
(***************************************************************************)
\* C23: every core operation is a pure function with no global mutable
\* state: invoking the same operation twice with equal arguments returns
\* equal results; this includes threshold_scheme::create_shares, so two
\* successive create_shares calls of one scheme on one trapdoor return the
\* same shares.
C23_PureOperations ==
    [][(/\ res.op = "create_shares" /\ "shares" \in DOMAIN res
        /\ res'.op = "create_shares" /\ "shares" \in DOMAIN res'
        /\ res'.scheme = res.scheme
        /\ td' = td)
       => res'.shares = res.shares]_vars

\* C27: reconstruct(shares, kf) raises the insufficient-shares error exactly
\* when fewer than k shares are supplied; otherwise it returns a trapdoor
\* with the supplied kf whose hash is the XOR of exactly the first k supplied
\* shares, ignoring any others; in particular, supplying shares[0..k-2]
\* followed by the last generated share yields td.hash.
C27_Reconstruct ==
    res.op = "reconstruct" =>
      LET k == res.scheme.threshold
          supplied == [i \in DOMAIN res.idx |-> res.shares[res.idx[i]]]
      IN  /\ ("err" \in DOMAIN res) <=> (Len(supplied) < k)
          /\ "err" \in DOMAIN res => res.err = "InsufficientShares"
          /\ "out" \in DOMAIN res =>
               /\ res.out.kf = res.kf
               /\ res.out.hash = xor_shares([j \in 1..N |-> 0], supplied, k)
               /\ (/\ k >= 1
                   /\ res.idx = [i \in 1..k |-> IF i < k THEN i ELSE Len(res.shares)])
                  => res.out.hash = td.hash

(***************************************************************************)
(* Specification of the failing calls: the client holds one target at a    *)
(* time, a symmetric-difference set sds or a compound trapdoor cmp, and    *)
(* accumulates trapdoors of every key into it.  res.lhs is the target as   *)
(* it was before the call.                                                 *)
(***************************************************************************)
InitFrame ==
    /\ InitPlainOracle
    /\ factory = NoObject
    /\ ab = NoObject
    /\ td = NoObject
    /\ sds = sds_default
    /\ bs = NoObject
    /\ cmp = NoObject
    /\ res = [op |-> "init"]

\* the client starts over with symmetric_difference_set()
FrameSet ==
    /\ sds' = sds_default
    /\ cmp' = NoObject
    /\ res' = [op |-> "symmetric_difference_set", out |-> sds']
    /\ UNCHANGED <<std_hash, factory, ab, td, bs>>

\* sds ^= t
FrameXorAssign(t) ==
    /\ sds # NoObject
    /\ LET r == sds_xor_assign(sds, t)
       IN  /\ sds' = IF Threw(r) THEN sds ELSE r
           /\ res' = Call2("^=", sds, t, r)
    /\ UNCHANGED <<std_hash, factory, ab, td, bs, cmp>>

\* the client starts over with compound_trapdoor(kf)
FrameCompound(kf) ==
    /\ cmp' = compound_trapdoor(kf)
    /\ sds' = NoObject
    /\ res' = [op |-> "compound_trapdoor", out |-> cmp']
    /\ UNCHANGED <<std_hash, factory, ab, td, bs>>

\* add_component pushing the component before it checks the key
FrameAddComponentPushFirst(t) ==
    /\ cmp # NoObject
    /\ Len(cmp.components) < MaxComponents
    /\ cmp' = [components |-> Append(cmp.components, t), kf |-> cmp.kf]
    /\ res' = Call2("add_component", cmp, t, add_component(cmp, t))
    /\ UNCHANGED <<std_hash, factory, ab, td, sds, bs>>

\* cmp.add_component(t)
FrameAddComponent(t) ==
    /\ cmp # NoObject
    /\ Len(cmp.components) < MaxComponents
    /\ LET r == add_component(cmp, t)
       IN  /\ cmp' = IF Threw(r) THEN cmp ELSE r
           /\ res' = Call2("add_component", cmp, t, r)
    /\ UNCHANGED <<std_hash, factory, ab, td, sds, bs>>

NextFrame ==
    \/ FrameSet
    \/ \E t \in TdPool : FrameXorAssign(t)
    \/ \E kf \in 0..MaxKey : FrameCompound(kf)
    \/ \E t \in TdPool : FrameAddComponent(t)

SpecFrame == InitFrame /\ [][NextFrame]_vars

\* C24: errors are detected before any state change: when
\* symmetric_difference_set ^= or compound_trapdoor::add_component raises the
\* incompatible-key error, the target's hash, key fingerprint and component
\* list are exactly as before the call, so a later successful operation
\* behaves as if the failed call had never happened.
C24_ErrorsBeforeStateChange ==
    (res.op \in {"^=", "add_component"} /\ "err" \in DOMAIN res) =>
      /\ res.err = "IncompatibleKey"
      /\ res.op = "^=" =>
           /\ sds.hash = res.lhs.hash /\ sds.kf = res.lhs.kf
           /\ \A t \in TdPool : sds_xor_assign(sds, t) = sds_xor_assign(res.lhs, t)
      /\ res.op = "add_component" =>
           /\ cmp.components = res.lhs.components /\ cmp.kf = res.lhs.kf
           /\ \A t \in TdPool : add_component(cmp, t) = add_component(res.lhs, t)
           /\ multiply(cmp) = multiply(res.lhs)

\* a set that holds elements of one key has refused a trapdoor of another
C24_Witness ==
    /\ res.op = "^="
    /\ "err" \in DOMAIN res
    /\ res.lhs.kf # 0
    /\ res.rhs.kf # res.lhs.kf
    /\ sds = res.lhs

(***************************************************************************)
(* batch_operations::batch_equals                                          *)
(***************************************************************************)
\* std::transform over the two vectors from position i (1-based) on: the
\* results, or the exception of the first equals that throws
RECURSIVE batch_equals_loop(_, _, _, _)
batch_equals_loop(left, right, i, results) ==
    IF i > Len(left) THEN [results |-> results]
    ELSE LET r == trapdoor_equals(left[i], right[i])
         IN  IF Threw(r) THEN r
             ELSE batch_equals_loop(left, right, i + 1, Append(results, r))

\* batch_equals without the size check, comparing the positions both have
batch_equals_no_size_check(left, right) ==
    batch_equals_loop(SubSeq(left, 1, IF Len(left) < Len(right) THEN Len(left) ELSE Len(right)),
                      right, 1, <<>>)

\* batch_operations::batch_equals
batch_equals(left, right) ==
    IF Len(left) # Len(right) THEN Throw("SizeMismatch")
    ELSE batch_equals_loop(left, right, 1, <<>>)

(***************************************************************************)
(* Specification of batch comparison: the client fills two vectors of      *)
(* trapdoors, td.left and td.right, and compares them.                     *)
(***************************************************************************)
\* the trapdoors pushed into the vectors: two hashes under every key
BatchTrapdoors ==
    {trapdoor([j \in 1..N |-> x], kf) : x \in {0, ByteMod - 1}, kf \in Keys}

InitBatch ==
    /\ std_hash = <<>>
    /\ factory = NoObject
    /\ ab = NoObject
    /\ td = [left |-> <<>>, right |-> <<>>]
    /\ sds = NoObject
    /\ bs = NoObject
    /\ cmp = NoObject
    /\ res = [op |-> "init"]

\* td.left.push_back(t)
BatchPushLeft(t) ==
    /\ Len(td.left) < MaxBatch
    /\ td' = [td EXCEPT !.left = Append(@, t)]
    /\ res' = [op |-> "push_back", out |-> td'.left]
    /\ UNCHANGED <<std_hash, factory, ab, sds, bs, cmp>>

\* td.right.push_back(t)
BatchPushRight(t) ==
    /\ Len(td.right) < MaxBatch
    /\ td' = [td EXCEPT !.right = Append(@, t)]
    /\ res' = [op |-> "push_back", out |-> td'.right]
    /\ UNCHANGED <<std_hash, factory, ab, sds, bs, cmp>>

\* td.left.clear(); td.right.clear()
BatchClear ==
    /\ td' = [left |-> <<>>, right |-> <<>>]
    /\ res' = [op |-> "clear"]
    /\ UNCHANGED <<std_hash, factory, ab, sds, bs, cmp>>

\* batch_operations::batch_equals(td.left, td.right)
BatchEquals ==
    /\ res' = Call2("batch_equals", td.left, td.right, batch_equals(td.left, td.right))
    /\ NothingElse

NextBatch ==
    \/ \E t \in BatchTrapdoors : BatchPushLeft(t)
    \/ \E t \in BatchTrapdoors : BatchPushRight(t)
    \/ BatchClear
    \/ BatchEquals

SpecBatch == InitBatch /\ [][NextBatch]_vars

\* C25: batch_equals raises the size-mismatch error, returning nothing, when
\* the two input vectors differ in length; otherwise it returns a vector of
\* the same length whose i-th entry is left[i].equals(right[i]), and it
\* raises the incompatible-key error if any pair has different fingerprints.
C25_BatchEquals ==
    res.op = "batch_equals" =>
      IF Len(res.lhs) # Len(res.rhs)
      THEN "out" \notin DOMAIN res /\ res.err = "SizeMismatch"
      ELSE IF \E i \in 1..Len(res.lhs) : res.lhs[i].kf # res.rhs[i].kf
      THEN "out" \notin DOMAIN res /\ res.err = "IncompatibleKey"
      ELSE /\ "err" \notin DOMAIN res
           /\ Len(res.out.results) = Len(res.lhs)
           /\ \A i \in 1..Len(res.lhs) :
                res.out.results[i] = trapdoor_equals(res.lhs[i], res.rhs[i])

\* vectors of different lengths whose common positions are compatible
C25_Witness ==
    /\ res.op = "batch_equals"
    /\ Len(res.lhs) > Len(res.rhs)
    /\ Len(res.rhs) > 0
    /\ \A i \in 1..Len(res.rhs) : res.lhs[i].kf = res.rhs[i].kf
    /\ "err" \in DOMAIN res

(***************************************************************************)
(* Specification of key isolation: the client has a factory of symmetric-  *)
(* difference sets for every key, holds one set sds and keeps combining it *)
(* with sets and trapdoors of all the factories.  sds.src is history: the  *)
(* keys under which the hashes XORed into sds were derived.                *)
(***************************************************************************)
\* the sets the factories hand out
IsoMade ==
    {From(sds_default, {})}
    \cup {From(sds_factory_singleton(k, x), {k}) : k \in Keys, x \in Values}

InitIsolation ==
    /\ InitPlainOracle
    /\ factory = NoObject
    /\ ab = NoObject
    /\ td = NoObject
    /\ sds = From(sds_default, {})
    /\ bs = NoObject
    /\ cmp = NoObject
    /\ res = [op |-> "init"]

\* sds = symmetric_difference_set_factory(k).empty()
IsoEmpty(k) ==
    /\ sds' = From(sds_factory_empty(k), {})
    /\ res' = [op |-> "empty", out |-> sds']
    /\ UNCHANGED <<std_hash, factory, ab, td, bs, cmp>>

\* sds = symmetric_difference_set_factory(k).singleton(x)
IsoSingleton(k, x) ==
    /\ sds' = From(sds_factory_singleton(k, x), {k})
    /\ res' = [op |-> "singleton", out |-> sds']
    /\ UNCHANGED <<std_hash, factory, ab, td, bs, cmp>>

\* sds = symmetric_difference_set_factory(k).from_unique(vs)
IsoFromUnique(k, vs) ==
    /\ sds' = From(from_unique(k, vs), IF vs = <<>> THEN {} ELSE {k})
    /\ res' = [op |-> "from_unique", out |-> sds']
    /\ UNCHANGED <<std_hash, factory, ab, td, bs, cmp>>

\* sds = sds ^ b
IsoXor(b) ==
    /\ LET r == sds_xor(sds, b)
       IN  /\ res' = Call2("^", sds, b, r)
           /\ sds' = IF Threw(r) THEN sds ELSE From(r, sds.src \cup b.src)
    /\ UNCHANGED <<std_hash, factory, ab, td, bs, cmp>>

\* sds ^= trapdoor_factory(k).create(x)
IsoXorAssign(k, x) ==
    /\ LET elem == From(create(k, <<"T", x>>), {k})
           r == sds_xor_assign(sds, elem)
       IN  /\ res' = Call2("^=", sds, elem, r)
           /\ sds' = IF Threw(r) THEN sds ELSE From(r, sds.src \cup {k})
    /\ UNCHANGED <<std_hash, factory, ab, td, bs, cmp>>

\* sds.equals(b)
IsoEquals(b) ==
    /\ res' = Call2("equals", sds, b, sds_equals(sds, b))
    /\ NothingElse

NextIsolation ==
    \/ \E k \in Keys : IsoEmpty(k)
    \/ \E k \in Keys, x \in Values : IsoSingleton(k, x)
    \/ \E k \in Keys, vs \in Collections : IsoFromUnique(k, vs)
    \/ \E b \in IsoMade : IsoXor(b)
    \/ \E k \in Keys, x \in Values : IsoXorAssign(k, x)
    \/ \E b \in IsoMade : IsoEquals(b)

SpecIsolation == InitIsolation /\ [][NextIsolation]_vars

\* C26: key isolation of symmetric-difference sets over sequences of
\* operations: with factories of distinct non-zero fingerprints, in any
\* sequence of empty / singleton / from_unique / ^ / ^= / equals operations,
\* every attempt to combine or compare a set containing material derived
\* under one key with a set or trapdoor derived under another raises the
\* incompatible-key error; no successfully produced set has a hash that XORs
\* together hashes from two keys.
C26_KeyIsolation ==
    /\ (/\ res.op \in {"^", "^=", "equals"}
        /\ \E k1 \in res.lhs.src, k2 \in res.rhs.src : k1 # k2)
       => ("err" \in DOMAIN res /\ res.err = "IncompatibleKey")
    /\ Cardinality(sds.src) <= 1

(***************************************************************************)
(* additive_trapdoor::operator*(int)                                       *)
(***************************************************************************)
\* scaled_hash = scaled_hash ^ hash_, for i = 1 .. n - 1
RECURSIVE scaled_hash_loop(_, _)
scaled_hash_loop(hash, n) ==
    IF n <= 1 THEN hash ELSE hash_xor(scaled_hash_loop(hash, n - 1), hash)

\* additive_trapdoor::operator*
additive_times(a, scalar) ==
    additive_trapdoor(trapdoor(scaled_hash_loop(a.hash, Abs(scalar)), a.kf),
                      a.value * scalar)

(***************************************************************************)
(* Specification of additive trapdoors: the client holds one additive      *)
(* trapdoor td, adds others to it and multiplies it by scalars.            *)
(***************************************************************************)
InitAdditive ==
    /\ InitPlainOracle
    /\ factory = NoObject
    /\ ab = NoObject
    /\ td \in AdditivePool
    /\ sds = NoObject
    /\ bs = NoObject
    /\ cmp = NoObject
    /\ res = [op |-> "init"]

\* td = additive_trapdoor(t, value)
AdditiveConstruct(a) ==
    /\ td' = a
    /\ res' = [op |-> "additive_trapdoor", out |-> td']
    /\ UNCHANGED <<std_hash, factory, ab, sds, bs, cmp>>

\* td = td + b
AdditivePlus(b) ==
    /\ Abs(td.value + b.value) <= MaxPayload
    /\ LET r == additive_plus(td, b)
       IN  /\ td' = IF Threw(r) THEN td ELSE r
           /\ res' = Call2("+", td, b, r)
    /\ UNCHANGED <<std_hash, factory, ab, sds, bs, cmp>>

\* td = td * scalar
AdditiveTimes(scalar) ==
    /\ Abs(td.value * scalar) <= MaxPayload
    /\ td' = additive_times(td, scalar)
    /\ res' = [op |-> "*", lhs |-> td, scalar |-> scalar, out |-> td']
    /\ UNCHANGED <<std_hash, factory, ab, sds, bs, cmp>>

NextAdditive ==
    \/ \E a \in AdditivePool : AdditiveConstruct(a)
    \/ \E b \in AdditivePool : AdditivePlus(b)
    \/ \E scalar \in (-MaxScalar)..MaxScalar : AdditiveTimes(scalar)

SpecAdditive == InitAdditive /\ [][NextAdditive]_vars

\* C28: additive trapdoors are homomorphic: + is commutative and
\* associative on (hash, kf, payload), and scalar multiplication distributes
\* over it: for all integers j, k >= 0, (a * j) + (a * k) has the same hash
\* and payload as a * (j + k), so a * k equals the k-fold sum a + ... + a.
C28_AdditiveHomomorphic ==
    /\ (res.op = "+" /\ "out" \in DOMAIN res) =>
         /\ res.out = additive_plus(res.rhs, res.lhs)
         /\ \A c \in AdditivePool :
              c.kf = res.lhs.kf =>
                additive_plus(res.out, c) = additive_plus(res.lhs, additive_plus(res.rhs, c))
    /\ (res.op = "*" /\ res.scalar >= 0) =>
         \A k \in 0..MaxScalar :
           LET sum == additive_plus(res.out, additive_times(res.lhs, k))
               product == additive_times(res.lhs, res.scalar + k)
           IN  /\ sum.hash = product.hash
               /\ sum.value = product.value
               /\ k = 1 => additive_plus(res.out, res.lhs) = product

(***************************************************************************)
(* cardinality_estimator::compare_cardinality and estimate_union           *)
(***************************************************************************)
\* compare_cardinality: std::abs of the difference over std::max of the two
\* estimates, compared with the threshold 0.1
compare_cardinality(a, b) ==
    LET card_a == cardinality_estimator_estimate(a)
        card_b == cardinality_estimator_estimate(b)
        threshold == FDiv(1, 10)
        difference == FSub(IntToF(card_a.value), IntToF(card_b.value))
        rel_diff == FQuot(<<Abs(difference[1]), difference[2]>>,
                          IntToF(IF card_a.value < card_b.value
                                 THEN card_b.value ELSE card_a.value))
        result == IF ~IsNaN(rel_diff) /\ FSub(rel_diff, threshold)[1] < 0 THEN 0
                  ELSE IF card_a.value < card_b.value THEN -1
                  ELSE 1
        combined_error == FSub(FOne, FMul(FSub(FOne, error_rate(card_a)),
                                          FSub(FOne, error_rate(card_b))))
    IN  approximate_value(result, combined_error, FZero)

\* estimate_union: the sum is a std::size_t
estimate_union(a, b) ==
    IF Threw(bs_and(a, b)) THEN bs_and(a, b)
    ELSE LET card_a == cardinality_estimator_estimate(a)
             card_b == cardinality_estimator_estimate(b)
             card_intersection == cardinality_estimator_estimate(bs_and(a, b))
             union_size == (card_a.value + card_b.value - card_intersection.value)
                             % 2 ^ SizeTBits
             combined_error ==
                 FSub(FOne, FMul(FMul(FSub(FOne, error_rate(card_a)),
                                      FSub(FOne, error_rate(card_b))),
                                 FSub(FOne, error_rate(card_intersection))))
         IN  approximate_value(union_size, combined_error, FZero)

(***************************************************************************)
(* Specification of the comparisons: the client holds a boolean set bs and *)
(* an empty symmetric-difference set sds of width DefaultN and compares    *)
(* them with other sets of their type.                                     *)
(***************************************************************************)
\* the words of the sets: some leading or some trailing bytes all x
CompareWords ==
    CardWords \cup
    {[j \in 1..DefaultN |-> IF j > DefaultN \div 2 ^ i THEN x ELSE 0] :
        i \in 1..MaxHalvings, x \in {1, ByteMod - 1}}

\* compare_cardinality(s, other) for a set other of the type of s
CompareCardinality(s, w) ==
    LET other == [s EXCEPT !.hash = w]
    IN  /\ res' = Call2("compare_cardinality", s, other, compare_cardinality(s, other))
        /\ NothingElse

\* estimate_union(bs, b)
EstimateUnion(b) ==
    /\ res' = Call2("estimate_union", bs, b, estimate_union(bs, b))
    /\ NothingElse

NextCompare ==
    \/ \E w \in CompareWords, kf \in Keys : CardBooleanSet(w, kf)
    \/ \E s \in {bs, sds}, w \in CompareWords : CompareCardinality(s, w)
    \/ \E w \in CompareWords, kf \in Keys : EstimateUnion(boolean_set(w, kf))

SpecCompare == InitCard /\ [][NextCompare]_vars

\* C29: compare_cardinality is a consistent three-way comparison: for all
\* sets a, b of one type its value is in {-1, 0, 1},
\* compare_cardinality(a, a).value = 0, and compare_cardinality(a, b).value
\* = -compare_cardinality(b, a).value, including when both estimates are 0.
C29_ThreeWayComparison ==
    res.op = "compare_cardinality" =>
      /\ res.out.value \in {-1, 0, 1}
      /\ res.lhs = res.rhs => res.out.value = 0
      /\ res.out.value = -compare_cardinality(res.rhs, res.lhs).value

\* C30: estimate_union never wraps around: for all boolean sets a, b of one
\* key, the unsigned result estimate(a) + estimate(b) - estimate(a & b) is
\* computed without underflow, so estimate_union(a, b).value <=
\* estimate(a).value + estimate(b).value.
C30_UnionNeverWraps ==
    (res.op = "estimate_union" /\ res.lhs.kf = res.rhs.kf) =>
      /\ "out" \in DOMAIN res
      /\ cardinality_estimator_estimate(bs_and(res.lhs, res.rhs)).value
           <= cardinality_estimator_estimate(res.lhs).value
              + cardinality_estimator_estimate(res.rhs).value
      /\ res.out.value <= cardinality_estimator_estimate(res.lhs).value
                          + cardinality_estimator_estimate(res.rhs).value

====
